---- MODULE Spec2Model ----
(***************************************************************************)
(* Model of the schedule crawler: the instructor crawler (ScheduleCrawler, *)
(* src/main.py), the student crawler (StudentScheduleCrawler,              *)
(* src/student_schedule_crawler.py) and the calendar generators            *)
(* (src/ics_exporter.py, src/student_ics_exporter.py), and the window of    *)
(* the application with its worker threads (src/app.py).                   *)
(*                                                                         *)
(* Text is a sequence of one-character strings.  A multi-character token   *)
(* ("Tiet:", "Lop:", "SUMMARY:" ...) abbreviates a literal word of the     *)
(* source that no operation of the program ever splits; Vietnamese words   *)
(* are written without diacritics.  Whitespace is " ", tab, "\n" and "\r". *)
(***************************************************************************)
EXTENDS Integers, Sequences, FiniteSets, TLC

VARIABLES crawler, period_map, call, window, threads, events, invocations

vars == <<crawler, period_map, call, window, threads, events, invocations>>

\* the application: the fields of the main window, the running worker
\* threads, the signals queued for the window's thread, and the parse
\* invocations in progress
shell == <<window, threads, events, invocations>>

\* the call: its name, its argument and its result
op == call[1]
arg == call[2]
ret == call[3]

----------------------------------------------------------------------------
(* Bounds *)

MaxLabelLen == 4
MaxRun == 7
MaxRuns == 3
MaxBad == 8
MaxDates == 3
MaxRows == 2
MaxDataRows == 9

----------------------------------------------------------------------------
(* Python str / int primitives *)

DigitChars == <<"0", "1", "2", "3", "4", "5", "6", "7", "8", "9">>

IsDigit(c) == \E i \in 1..10 : DigitChars[i] = c

DigitVal(c) == (CHOOSE i \in 1..10 : DigitChars[i] = c) - 1

IsSpace(c) == c \in {" ", "\t", "\n", "\r"}

RECURSIVE LStrip(_)
LStrip(s) ==
  IF s = <<>> THEN <<>>
  ELSE IF IsSpace(Head(s)) THEN LStrip(Tail(s)) ELSE s

RECURSIVE RStrip(_)
RStrip(s) ==
  IF s = <<>> THEN <<>>
  ELSE IF IsSpace(s[Len(s)]) THEN RStrip(SubSeq(s, 1, Len(s) - 1)) ELSE s

\* str.strip()
Strip(s) == RStrip(LStrip(s))

StartsWith(s, old) ==
  /\ Len(old) <= Len(s)
  /\ SubSeq(s, 1, Len(old)) = old

\* old in s
Contains(s, old) ==
  \E i \in 0..(Len(s) - Len(old)) : SubSeq(s, i + 1, i + Len(old)) = old

\* s.replace(old, ''), old non-empty: left to right, non-overlapping
RECURSIVE Replace(_, _)
Replace(s, old) ==
  IF s = <<>> THEN <<>>
  ELSE IF StartsWith(s, old) THEN Replace(SubSeq(s, Len(old) + 1, Len(s)), old)
  ELSE <<Head(s)>> \o Replace(Tail(s), old)

\* s.split(sep), sep non-empty: the list of the parts, cur being the part
\* read so far
RECURSIVE SplitFrom(_, _, _)
SplitFrom(s, sep, cur) ==
  IF s = <<>> THEN <<cur>>
  ELSE IF StartsWith(s, sep)
       THEN <<cur>> \o SplitFrom(SubSeq(s, Len(sep) + 1, Len(s)), sep, <<>>)
       ELSE SplitFrom(Tail(s), sep, Append(cur, Head(s)))

Split(s, sep) == SplitFrom(s, sep, <<>>)

RECURSIVE DigitsValue(_, _)
DigitsValue(s, acc) ==
  IF s = <<>> THEN acc ELSE DigitsValue(Tail(s), 10 * acc + DigitVal(Head(s)))

AllDigits(s) == s # <<>> /\ \A i \in 1..Len(s) : IsDigit(s[i])

\* int(s): surrounding whitespace is dropped, one sign is allowed, the rest
\* must be decimal digits; anything else is a ValueError (ok = FALSE)
PyInt(s) ==
  LET t == Strip(s)
      signed == t # <<>> /\ Head(t) \in {"-", "+"}
      body == IF signed THEN Tail(t) ELSE t
  IN IF AllDigits(body)
     THEN [ok |-> TRUE,
           val |-> IF signed /\ Head(t) = "-" THEN 0 - DigitsValue(body, 0)
                   ELSE DigitsValue(body, 0)]
     ELSE [ok |-> FALSE, val |-> 0]

----------------------------------------------------------------------------
(* Period labels *)

Arrow == <<"-", ">">>
Dash == <<"-">>

\* '-Tiết:' (instructor) and '- Tiết:' (student)
InstructorPeriodPrefix == <<"-", "Tiet:">>
StudentPeriodPrefix == <<"-", " ", "Tiet:">>

\* the (begin, end) pair of a two-part split, or (0, 0) when the unpacking
\* or an int() raises (the bare except)
UnpackPeriod(parts) ==
  IF Len(parts) # 2 THEN <<0, 0>>
  ELSE LET b == PyInt(parts[1])
           e == PyInt(parts[2])
       IN IF b.ok /\ e.ok THEN <<b.val, e.val>> ELSE <<0, 0>>

ScheduleCrawler_parse_period(period_str) ==
  IF Contains(period_str, Arrow)
  THEN UnpackPeriod(Split(period_str, Arrow))
  ELSE <<0, 0>>

StudentScheduleCrawler_parse_period(period_str) ==
  LET cleaned == Strip(Replace(period_str, StudentPeriodPrefix))
  IN IF Contains(cleaned, Dash)
     THEN UnpackPeriod(Split(cleaned, Dash))
     ELSE <<0, 0>>

----------------------------------------------------------------------------
(* Period Table *)

\* datetime.strptime(s, "%H:%M") as minutes after midnight, for the
\* two-digit forms the source uses
StrptimeHM(s) ==
  (10 * DigitVal(s[1]) + DigitVal(s[2])) * 60
    + 10 * DigitVal(s[4]) + DigitVal(s[5])

\* strftime("%H:%M") of midnight + m minutes
StrftimeHM(m) ==
  LET h == (m \div 60) % 24
      mi == m % 60
  IN <<DigitChars[(h \div 10) + 1], DigitChars[(h % 10) + 1], ":",
       DigitChars[(mi \div 10) + 1], DigitChars[(mi % 10) + 1]>>

EmptyDict == [k \in {} |-> <<>>]

\* periods[period] = value
DictSet(periods, period, value) ==
  [k \in (DOMAIN periods) \cup {period} |->
     IF k = period THEN value ELSE periods[k]]

PeriodMinutes == 45
ShortBreak == 5
MorningLongBreak == 20
AfternoonLongBreak == 10
EveningStride == 50

\* periods[period] = (start_time, end_time) at current_time
PeriodEntry_swapped(current_time) ==
  <<StrftimeHM(current_time + PeriodMinutes), StrftimeHM(current_time)>>

PeriodEntry(current_time) ==
  <<StrftimeHM(current_time), StrftimeHM(current_time + PeriodMinutes)>>

\* current_time after the period and its break
NextStart_no_long_break(current_time, period, longAfter, longBreak) ==
  current_time + PeriodMinutes + ShortBreak

NextStart(current_time, period, longAfter, longBreak) ==
  IF period = longAfter
  THEN current_time + PeriodMinutes + longBreak
  ELSE current_time + PeriodMinutes + ShortBreak

\* one block loop with a long break: for period in range(period, stop)
RECURSIVE BlockLoop(_, _, _, _, _, _)
BlockLoop(periods, current_time, period, stop, longAfter, longBreak) ==
  IF period >= stop THEN periods
  ELSE BlockLoop(DictSet(periods, period, PeriodEntry(current_time)),
                 NextStart(current_time, period, longAfter, longBreak),
                 period + 1, stop, longAfter, longBreak)

\* the evening loop: a flat stride
RECURSIVE EveningLoop(_, _, _, _)
EveningLoop(periods, current_time, period, stop) ==
  IF period >= stop THEN periods
  ELSE EveningLoop(DictSet(periods, period, PeriodEntry(current_time)),
                   current_time + EveningStride, period + 1, stop)

initialize_period_map ==
  LET morning == BlockLoop(EmptyDict, StrptimeHM(<<"0", "7", ":", "3", "0">>),
                           1, 7, 3, MorningLongBreak)
      afternoon == BlockLoop(morning, StrptimeHM(<<"1", "3", ":", "0", "0">>),
                             7, 11, 8, AfternoonLongBreak)
  IN EveningLoop(afternoon, StrptimeHM(<<"1", "6", ":", "4", "0">>), 11, 15)

----------------------------------------------------------------------------
(* Table cells: the list find_all(['hr', 'span']) returns, in document     *)
(* order.  "raises" marks a span whose text cannot be extracted: reading   *)
(* it inside a try block raises.                                          *)

Hr == [name |-> "hr", text |-> <<>>, raises |-> FALSE]

Span(text, raises) == [name |-> "span", text |-> text, raises |-> raises]

\* cell.find_all('span')
find_all_span(cell) == SelectSeq(cell, LAMBDA b : b.name = "span")

\* cell.find('span') is not None
find_span(cell) == \E i \in 1..Len(cell) : cell[i].name = "span"

None == [isNone |-> TRUE]

Some(v) == [isNone |-> FALSE, value |-> v]

\* a field read inside a try block raises
AnyRaises_uncaught(spans, n) == FALSE

AnyRaises(spans, n) == \E i \in 1..n : spans[i].raises

----------------------------------------------------------------------------
(* Instructor Session Parser *)

InstructorSpanCount == 7

\* the ClassSession built from the first seven spans
ClassSessionOf_shifted(spans) ==
  LET period_str == Strip(Replace(spans[4].text, InstructorPeriodPrefix))
      pp == ScheduleCrawler_parse_period(period_str)
  IN [subject |-> Strip(spans[1].text),
      class_code |-> Strip(Replace(spans[2].text, <<"-", "MaLHP:">>)),
      class_name |-> Strip(Replace(spans[3].text, <<"-", "Lop:">>)),
      period |-> period_str,
      period_begin |-> pp[1],
      period_end |-> pp[2],
      taught_lessons |-> Strip(Replace(spans[5].text, <<"-", "Daday:">>)),
      room |-> Strip(Replace(spans[Len(spans) - 1].text,
                             <<"-", "Phong", " ", ":">>)),
      content |-> Strip(Replace(spans[Len(spans)].text,
                                <<"-", "Noidung", " ", ":">>))]

ClassSessionOf(spans) ==
  LET period_str == Strip(Replace(spans[4].text, InstructorPeriodPrefix))
      pp == ScheduleCrawler_parse_period(period_str)
  IN [subject |-> Strip(spans[1].text),
      class_code |-> Strip(Replace(spans[2].text, <<"-", "MaLHP:">>)),
      class_name |-> Strip(Replace(spans[3].text, <<"-", "Lop:">>)),
      period |-> period_str,
      period_begin |-> pp[1],
      period_end |-> pp[2],
      taught_lessons |-> Strip(Replace(spans[5].text, <<"-", "Daday:">>)),
      room |-> Strip(Replace(spans[6].text, <<"-", "Phong", " ", ":">>)),
      content |-> Strip(Replace(spans[7].text,
                                <<"-", "Noidung", " ", ":">>))]

ScheduleCrawler_parse_class_cell(cell) ==
  IF ~find_span(cell) THEN None
  ELSE LET spans == find_all_span(cell)
       IN IF Len(spans) < InstructorSpanCount THEN None
          ELSE IF AnyRaises(spans, InstructorSpanCount) THEN None
          ELSE Some(ClassSessionOf(spans))

----------------------------------------------------------------------------
(* Student Session Parser *)

StudentSpanCount == 6

SentinelTime == <<"0", "0", ":", "0", "0">>

\* a period outside the table takes the times of the last period
PeriodTime_clamped(pmap, period, k) ==
  IF period \in DOMAIN pmap THEN pmap[period][k]
  ELSE IF 14 \in DOMAIN pmap THEN pmap[14][k]
  ELSE SentinelTime

\* self.period_map.get(period, ("00:00", "00:00"))[k]
PeriodTime(pmap, period, k) ==
  IF period \in DOMAIN pmap THEN pmap[period][k] ELSE SentinelTime

\* StudentSession(...) from the spans, the period text and its parsed pair
StudentSessionOf(spans, period_str, pp, pmap) ==
  [subject |-> Strip(spans[1].text),
   class_code |-> Strip(Replace(spans[2].text, <<"-", " ", "Nhom:">>)),
   class_name |-> Strip(Replace(spans[3].text, <<"-", " ", "Lop:">>)),
   period |-> period_str,
   period_begin |-> pp[1],
   period_end |-> pp[2],
   time_begin |-> PeriodTime(pmap, pp[1], 1),
   time_end |-> PeriodTime(pmap, pp[2], 2),
   room |-> Strip(Replace(spans[5].text, <<"-", " ", "Phong:">>)),
   teacher_name |-> Strip(Replace(spans[6].text, <<"-", " ", "GV:">>))]

\* period_str = spans[3].text.strip() keeps its "- Tiet:" prefix
StudentSessionWithPeriod(spans, period_str, pmap) ==
  StudentSessionOf(spans, period_str,
                   StudentScheduleCrawler_parse_period(period_str), pmap)

StudentScheduleCrawler_create_session_from_spans(spans, pmap) ==
  IF Len(spans) < StudentSpanCount THEN None
  ELSE IF AnyRaises(spans, StudentSpanCount) THEN None
  ELSE Some(StudentSessionWithPeriod(spans, Strip(spans[4].text), pmap))

\* if session: sessions.append(session)
AppendIfSession_abort(sessions, session) ==
  IF session.isNone THEN <<>> ELSE Append(sessions, session.value)

AppendIfSession(sessions, session) ==
  IF session.isNone THEN sessions ELSE Append(sessions, session.value)

\* if current_session: session = self._create_session_from_spans(...)
AppendSession(sessions, current_session, pmap) ==
  IF current_session = <<>> THEN sessions
  ELSE AppendIfSession(sessions,
         StudentScheduleCrawler_create_session_from_spans(current_session,
                                                          pmap))

\* the loop over subject_blocks: a span joins the current run; an <hr>, and
\* the end of the blocks, closes the run (RunClosed: the loop goes on after
\* an <hr> with an empty run)
RECURSIVE BlocksLoop(_, _, _, _), RunClosed(_, _, _)
BlocksLoop(blocks, sessions, current_session, pmap) ==
  IF blocks # <<>> /\ Head(blocks).name # "hr"
  THEN BlocksLoop(Tail(blocks), sessions,
                  Append(current_session, Head(blocks)), pmap)
  ELSE RunClosed(blocks, AppendSession(sessions, current_session, pmap),
                 pmap)

RunClosed(blocks, sessions, pmap) ==
  IF blocks = <<>> THEN sessions
  ELSE BlocksLoop(Tail(blocks), sessions, <<>>, pmap)

StudentScheduleCrawler_parse_class_cell(cell, pmap) ==
  IF ~find_span(cell) THEN <<>>
  ELSE BlocksLoop(cell, <<>>, <<>>, pmap)

----------------------------------------------------------------------------
(* Results of a call: a returned value or a raised exception *)

Ok(v) == [ok |-> TRUE, value |-> v]

Raise(e) == [ok |-> FALSE, exc |-> e]

----------------------------------------------------------------------------
(* Header Parser.  A page header is the div styled font-weight:bold (div  *)
(* = FALSE when the page has none) with the texts of its spans.            *)

\* only the first of the digits is kept
DigitsOf_first(s) ==
  IF SelectSeq(s, IsDigit) = <<>> THEN <<>>
  ELSE <<Head(SelectSeq(s, IsDigit))>>

\* the characters of week_span.split(':')[0] that are digits, joined
DigitsOf(s) == SelectSeq(s, IsDigit)

\* the pattern \d{2}/\d{2}/\d{4} matches at the head of s
DateMatchLen == 10

DateAtHead(s) ==
  /\ Len(s) >= DateMatchLen
  /\ \A i \in {1, 2, 4, 5, 7, 8, 9, 10} : IsDigit(s[i])
  /\ s[3] = "/"
  /\ s[6] = "/"

\* re.findall(r'\d{2}/\d{2}/\d{4}', s): leftmost, non-overlapping
RECURSIVE FindDates(_)
FindDates(s) ==
  IF s = <<>> THEN <<>>
  ELSE IF DateAtHead(s)
       THEN <<SubSeq(s, 1, DateMatchLen)>>
              \o FindDates(SubSeq(s, DateMatchLen + 1, Len(s)))
       ELSE FindDates(Tail(s))

Unknown == <<"Unknown">>

InstructorOwnerLabel == <<"TKBGV:">>
StudentOwnerLabel == <<"TKBLop:">>

UnknownWeekInfo ==
  [week_number |-> 0, start_date |-> Unknown, end_date |-> Unknown,
   professor_name |-> Unknown]

\* the whole body is inside try ... except Exception
ScheduleCrawler_extract_week_info(header) ==
  IF ~header.div THEN UnknownWeekInfo
  ELSE IF Len(header.spans) < 2 THEN UnknownWeekInfo
  ELSE LET week_span == Strip(header.spans[1])
           professor_span == Strip(header.spans[2])
           digits == DigitsOf(Split(week_span, <<":">>)[1])
           dates == FindDates(week_span)
       IN IF digits = <<>> THEN UnknownWeekInfo
          ELSE IF Len(dates) >= 2
               THEN [week_number |-> DigitsValue(digits, 0),
                     start_date |-> dates[1],
                     end_date |-> dates[2],
                     professor_name |->
                       Strip(Replace(professor_span, InstructorOwnerLabel))]
               ELSE UnknownWeekInfo

\* no try block: every failure is raised to the caller
StudentScheduleCrawler_extract_metadata(header) ==
  IF ~header.div THEN Raise("AttributeError")
  ELSE IF Len(header.spans) < 2 THEN Raise("IndexError")
  ELSE LET week_info == Strip(header.spans[1])
           class_info == Strip(header.spans[2])
           digits == DigitsOf(Split(week_info, <<":">>)[1])
           dates == FindDates(week_info)
       IN IF digits = <<>> THEN Raise("ValueError")
          ELSE Ok([week_number |-> DigitsValue(digits, 0),
                   start_date |-> IF Len(dates) > 0 THEN dates[1] ELSE <<>>,
                   end_date |-> IF Len(dates) > 1 THEN dates[2] ELSE <<>>,
                   class_name |->
                     Strip(Replace(class_info, StudentOwnerLabel))])

----------------------------------------------------------------------------
(* Schedule Parser.  A page is [table, rows, header]: whether the markup   *)
(* has a table, the td cells of each of its tr rows (header row first) and *)
(* the page header.                                                        *)

\* the day list of ScheduleCrawler.parse_schedule
days == <<"Thu 2", "Thu 3", "Thu 4", "Thu 5", "Thu 6", "Thu 7", "Chu nhat">>

SlotCount == 3

\* the first row is kept
SkipHeaderRow_keep(rows) == rows

\* rows[1:]
SkipHeaderRow(rows) == IF rows = <<>> THEN <<>> ELSE Tail(rows)

Min(a, b) == IF a <= b THEN a ELSE b

\* [self._parse_class_cell(c)] if self._parse_class_cell(c) else []
InstructorSlot(cell) ==
  LET session == ScheduleCrawler_parse_class_cell(cell)
  IN IF session.isNone THEN <<>> ELSE <<session.value>>

\* for row, day in zip(rows, days): cells[0..2] of a row with fewer than
\* three cells is an IndexError, which nothing catches
RECURSIVE InstructorRowsLoop(_, _, _)
InstructorRowsLoop(rows, i, schedule) ==
  IF i > Min(Len(rows), Len(days)) THEN Ok(schedule)
  ELSE LET cells == rows[i]
       IN IF Len(cells) < SlotCount THEN Raise("IndexError")
          ELSE InstructorRowsLoop(rows, i + 1,
                 Append(schedule,
                        [day |-> days[i],
                         morning |-> InstructorSlot(cells[1]),
                         afternoon |-> InstructorSlot(cells[2]),
                         evening |-> InstructorSlot(cells[3])]))

\* soup.find('table') is None: .find_all on None is an AttributeError
ScheduleCrawler_parse_schedule(page) ==
  IF ~page.table THEN Raise("AttributeError")
  ELSE InstructorRowsLoop(SkipHeaderRow(page.rows), 1, <<>>)

\* the class name is written under the key of the class code
asdict_renamed(session) ==
  [subject |-> session.subject,
   class_code |-> session.class_name,
   class_name |-> session.class_name,
   period |-> session.period,
   period_begin |-> session.period_begin,
   period_end |-> session.period_end,
   taught_lessons |-> session.taught_lessons,
   room |-> session.room,
   content |-> session.content]

\* dataclasses.asdict of a ClassSession
asdict(session) ==
  [subject |-> session.subject,
   class_code |-> session.class_code,
   class_name |-> session.class_name,
   period |-> session.period,
   period_begin |-> session.period_begin,
   period_end |-> session.period_end,
   taught_lessons |-> session.taught_lessons,
   room |-> session.room,
   content |-> session.content]

\* [asdict(session) for session in sessions]
asdict_each(sessions) == [i \in 1..Len(sessions) |-> asdict(sessions[i])]

ScheduleCrawler_to_json_structure(schedule, header) ==
  [metadata |-> ScheduleCrawler_extract_week_info(header),
   schedule |->
     [i \in 1..Len(schedule) |->
        [day |-> schedule[i].day,
         morning |-> asdict_each(schedule[i].morning),
         afternoon |-> asdict_each(schedule[i].afternoon),
         evening |-> asdict_each(schedule[i].evening)]]]

\* fetch_schedule on a page the server returned with status 200
ScheduleCrawler_fetch_schedule(page) ==
  LET schedule == ScheduleCrawler_parse_schedule(page)
  IN IF ~schedule.ok THEN schedule
     ELSE Ok(ScheduleCrawler_to_json_structure(schedule.value, page.header))

\* StudentSession.to_dict
to_dict(session) ==
  [subject |-> session.subject,
   class_code |-> session.class_code,
   class_name |-> session.class_name,
   period |-> session.period,
   period_begin |-> session.period_begin,
   period_end |-> session.period_end,
   time_begin |-> session.time_begin,
   time_end |-> session.time_end,
   room |-> session.room,
   teacher_name |-> session.teacher_name]

\* [s.to_dict() for s in sessions]
to_dict_each(sessions) == [i \in 1..Len(sessions) |-> to_dict(sessions[i])]

StudentSlot(cell, pmap) ==
  to_dict_each(StudentScheduleCrawler_parse_class_cell(cell, pmap))

\* the day list of StudentScheduleCrawler.parse_schedule
student_days ==
  <<"Thu 2", "Thu 3", "Thu 4", "Thu 5", "Thu 6", "Thu 7", "Chu nhat">>

\* for row, day in zip(rows, days): a row with fewer than three cells is
\* left out
RECURSIVE StudentRowsLoop(_, _, _, _)
StudentRowsLoop(rows, i, schedule, pmap) ==
  IF i > Min(Len(rows), Len(student_days)) THEN schedule
  ELSE LET cells == rows[i]
       IN StudentRowsLoop(rows, i + 1,
            IF Len(cells) >= SlotCount
            THEN Append(schedule,
                        [day |-> student_days[i],
                         morning |-> StudentSlot(cells[1], pmap),
                         afternoon |-> StudentSlot(cells[2], pmap),
                         evening |-> StudentSlot(cells[3], pmap)])
            ELSE schedule,
            pmap)

StudentScheduleCrawler_parse_schedule(page, pmap) ==
  IF ~page.table THEN Raise("Schedule table not found in HTML content")
  ELSE Ok(StudentRowsLoop(SkipHeaderRow(page.rows), 1, <<>>, pmap))

\* return {"metadata": metadata, "schedule": schedule}; an exception of
\* _extract_metadata is raised to the caller
StudentFetchResult(schedule, metadata) ==
  IF ~metadata.ok THEN metadata
  ELSE Ok([metadata |-> metadata.value, schedule |-> schedule.value])

StudentFetchParsed(schedule, header) ==
  IF ~schedule.ok THEN schedule
  ELSE StudentFetchResult(schedule,
                          StudentScheduleCrawler_extract_metadata(header))

StudentScheduleCrawler_fetch_schedule(page, pmap) ==
  StudentFetchParsed(StudentScheduleCrawler_parse_schedule(page, pmap),
                     page.header)

----------------------------------------------------------------------------
(* Calendar dates *)

IsLeap(y) == (y % 4 = 0 /\ y % 100 # 0) \/ y % 400 = 0

DaysInMonth(y, m) ==
  IF m = 2 THEN (IF IsLeap(y) THEN 29 ELSE 28)
  ELSE IF m \in {4, 6, 9, 11} THEN 30 ELSE 31

\* datetime.strptime(s, "%d/%m/%Y"): one or two digits, one or two digits,
\* four digits, and a date of the calendar; otherwise a ValueError
StrptimeDMY(s) ==
  LET parts == Split(s, <<"/">>)
  IN IF Len(parts) # 3 THEN Raise("ValueError")
     ELSE IF ~(AllDigits(parts[1]) /\ Len(parts[1]) <= 2
               /\ AllDigits(parts[2]) /\ Len(parts[2]) <= 2
               /\ AllDigits(parts[3]) /\ Len(parts[3]) = 4)
          THEN Raise("ValueError")
     ELSE LET d == DigitsValue(parts[1], 0)
              m == DigitsValue(parts[2], 0)
              y == DigitsValue(parts[3], 0)
          IN IF y >= 1 /\ m \in 1..12 /\ d >= 1 /\ d <= DaysInMonth(y, m)
             THEN Ok([y |-> y, m |-> m, d |-> d])
             ELSE Raise("ValueError")

\* the day of the month grows past the end of the month
AddDays_same_month(date, n) == [date EXCEPT !.d = date.d + n]

\* date + timedelta(days = n), n >= 0
RECURSIVE AddDays(_, _)
AddDays(date, n) ==
  IF n = 0 THEN date
  ELSE IF date.d < DaysInMonth(date.y, date.m)
       THEN AddDays([date EXCEPT !.d = date.d + 1], n - 1)
       ELSE IF date.m < 12
            THEN AddDays([y |-> date.y, m |-> date.m + 1, d |-> 1], n - 1)
            ELSE AddDays([y |-> date.y + 1, m |-> 1, d |-> 1], n - 1)

TwoDigits(n) ==
  <<DigitChars[((n \div 10) % 10) + 1], DigitChars[(n % 10) + 1]>>

FourDigits(n) == TwoDigits(n \div 100) \o TwoDigits(n % 100)

\* strftime("%d/%m/%Y")
StrftimeDMY(date) ==
  TwoDigits(date.d) \o <<"/">> \o TwoDigits(date.m) \o <<"/">>
    \o FourDigits(date.y)

----------------------------------------------------------------------------
(* Calendar Generator *)

timezone == <<"Asia/Ho_Chi_Minh">>

\* day_map of ICSExporter._generate_ics_content
ICSExporter_day_map ==
  ("Thu 2" :> 0) @@ ("Thu 3" :> 1) @@ ("Thu 4" :> 2) @@ ("Thu 5" :> 3)
    @@ ("Thu 6" :> 4) @@ ("Thu 7" :> 5) @@ ("Chu nhat" :> 6)

\* Chu nhat is the first day of the week
StudentICSExporter_day_map_sunday_first ==
  ("Chu nhat" :> 0) @@ ("Thu 2" :> 1) @@ ("Thu 3" :> 2) @@ ("Thu 4" :> 3)
    @@ ("Thu 5" :> 4) @@ ("Thu 6" :> 5) @@ ("Thu 7" :> 6)

\* day_map of StudentICSExporter._generate_ics_content
StudentICSExporter_day_map ==
  ("Thu 2" :> 0) @@ ("Thu 3" :> 1) @@ ("Thu 4" :> 2) @@ ("Thu 5" :> 3)
    @@ ("Thu 6" :> 4) @@ ("Thu 7" :> 5) @@ ("Chu nhat" :> 6)

\* the date is written in the order of date_str
ICSExporter_format_datetime_unordered(date_str, time_str) ==
  LET date_parts == Split(date_str, <<"/">>)
  IN date_parts[1] \o date_parts[2] \o date_parts[3] \o <<"T">>
       \o Replace(time_str, <<":">>) \o <<"0", "0">>

\* ICSExporter._format_datetime
ICSExporter_format_datetime(date_str, time_str) ==
  LET date_parts == Split(date_str, <<"/">>)
  IN date_parts[3] \o date_parts[2] \o date_parts[1] \o <<"T">>
       \o Replace(time_str, <<":">>) \o <<"0", "0">>

EscapedNewline == <<"\\", "n">>

CRLF == <<"\r", "\n">>

\* The environment of one generation: env.seed selects the sequence of
\* identifiers uuid4 returns, env.t0 and env.drift the readings of the
\* wall clock (datetime.now()) at the successive events
ICSExporter_generate_uid(env, n) ==
  <<"uuid", DigitChars[env.seed + 1], DigitChars[(n % 10) + 1]>>

Now(env, n) == <<"now", DigitChars[((env.t0 + env.drift * n) % 10) + 1]>>

\* the keys an event block reads from a session, in the order it reads them
InstructorEventKeys ==
  <<"time_begin", "time_end", "class_code", "class_name", "period",
    "taught_lessons", "subject", "room">>

StudentEventKeys ==
  <<"time_begin", "time_end", "class_code", "class_name", "period",
    "teacher_name", "subject", "room">>

HasKeys(session, keys) == \A i \in 1..Len(keys) : keys[i] \in DOMAIN session

\* the eleven lines of one event; lastLabel / lastKey are the fourth
\* description field of the mode
EventLines(session, current_date_str, uid, stamp, lastLabel, lastKey) ==
  LET start_dt == ICSExporter_format_datetime(current_date_str,
                                              session.time_begin)
      end_dt == ICSExporter_format_datetime(current_date_str,
                                            session.time_end)
      description ==
        <<"Ma lop: ">> \o session.class_code \o EscapedNewline
          \o <<"Lop: ">> \o session.class_name \o EscapedNewline
          \o <<"Tiet: ">> \o session.period \o EscapedNewline
          \o <<lastLabel>> \o session[lastKey]
  IN << <<"BEGIN:VEVENT">>,
        <<"UID:">> \o uid,
        <<"DTSTAMP:">> \o stamp,
        <<"DTSTART;TZID=">> \o timezone \o <<":">> \o start_dt,
        <<"DTEND;TZID=">> \o timezone \o <<":">> \o end_dt,
        <<"SUMMARY:">> \o session.subject,
        <<"LOCATION:">> \o session.room,
        <<"DESCRIPTION:">> \o description,
        <<"STATUS:CONFIRMED">>,
        <<"SEQUENCE:0">>,
        <<"END:VEVENT">> >>

\* the slots are read from the last to the first
DaySessions_reversed(entry) ==
  entry.evening \o entry.afternoon \o entry.morning

\* the sessions of a day in morning, afternoon, evening order
DaySessions(entry) == entry.morning \o entry.afternoon \o entry.evening

EventLineCount == 11

\* the loop over schedule.items() and the three slots: acc is ics_lines so
\* far, n the number of the event being emitted
RECURSIVE EventsLoop(_, _, _, _, _, _, _, _, _)
EventsLoop(schedule, i, j, base_date, acc, env, keys, last, day_map) ==
  IF i > Len(schedule) THEN Ok(acc)
  ELSE LET sessions == DaySessions(schedule[i])
       IN IF schedule[i].day \notin DOMAIN day_map THEN Raise("KeyError")
          ELSE IF j > Len(sessions)
               THEN EventsLoop(schedule, i + 1, 1, base_date, acc,
                               env, keys, last, day_map)
          ELSE IF DOMAIN sessions[j] = {}
               THEN EventsLoop(schedule, i, j + 1, base_date, acc,
                               env, keys, last, day_map)
          ELSE IF ~HasKeys(sessions[j], keys) THEN Raise("KeyError")
          ELSE LET n == ((Len(acc) - 6) \div EventLineCount) + 1
                   current_date_str ==
                     StrftimeDMY(AddDays(base_date,
                                         day_map[schedule[i].day]))
               IN EventsLoop(schedule, i, j + 1, base_date,
                             acc \o EventLines(sessions[j], current_date_str,
                                               ICSExporter_generate_uid(env, n),
                                               Now(env, n),
                                               last[1], last[2]),
                             env, keys, last, day_map)

\* sep.join(lines), joined by halves
RECURSIVE JoinLines(_, _)
JoinLines(lines, sep) ==
  IF lines = <<>> THEN <<>>
  ELSE IF Len(lines) = 1 THEN lines[1]
  ELSE LET half == Len(lines) \div 2
       IN JoinLines(SubSeq(lines, 1, half), sep) \o sep
            \o JoinLines(SubSeq(lines, half + 1, Len(lines)), sep)

GenerateWith(schedule_data, prodid, env, keys, last, day_map) ==
  IF "metadata" \notin DOMAIN schedule_data THEN Raise("KeyError")
  ELSE IF "schedule" \notin DOMAIN schedule_data THEN Raise("KeyError")
  ELSE IF "start_date" \notin DOMAIN schedule_data.metadata
       THEN Raise("KeyError")
  ELSE LET ics_lines == << <<"BEGIN:VCALENDAR">>,
                           <<prodid>>,
                           <<"VERSION:2.0">>,
                           <<"CALSCALE:GREGORIAN">>,
                           <<"METHOD:PUBLISH">>,
                           <<"X-WR-TIMEZONE:">> \o timezone >>
           base_date == StrptimeDMY(schedule_data.metadata.start_date)
       IN IF ~base_date.ok THEN base_date
          ELSE LET body == EventsLoop(schedule_data.schedule, 1, 1,
                                      base_date.value, ics_lines,
                                      env, keys, last, day_map)
               IN IF ~body.ok THEN body
                  ELSE Ok(JoinLines(Append(body.value, <<"END:VCALENDAR">>),
                                    CRLF))

ICSExporter_generate_ics_content(schedule_data, env) ==
  GenerateWith(schedule_data,
               "PRODID:-//DalatCoder//Schedule Exporter//EN",
               env, InstructorEventKeys,
               <<"Da day: ", "taught_lessons">>, ICSExporter_day_map)

StudentICSExporter_generate_ics_content(schedule_data, env) ==
  GenerateWith(schedule_data,
               "PRODID:-//DalatCoder//Student Schedule Exporter//EN",
               env, StudentEventKeys,
               <<"Giang vien: ", "teacher_name">>,
               StudentICSExporter_day_map)

\* what was built before the failure is returned
WrapException_partial(r) == IF r.ok THEN r ELSE Ok(<<"BEGIN:VCALENDAR">>)

\* create_ics_content_from_data: every exception is re-raised as Exception
WrapException(r) == IF r.ok THEN r ELSE Raise("Failed to create ICS content")

ICSExporter_create_ics_content_from_data(schedule_data, env) ==
  WrapException(ICSExporter_generate_ics_content(schedule_data, env))

StudentICSExporter_create_ics_content_from_data(schedule_data, env) ==
  WrapException(StudentICSExporter_generate_ics_content(schedule_data, env))

----------------------------------------------------------------------------
(* Inputs *)

\* period labels: every text of at most MaxLabelLen characters
LabelChars == {"1", "2", "-", ">", " "}

Labels == UNION {[1..k -> LabelChars] : k \in 0..MaxLabelLen}

\* the period labels written in the cells of the pages
CellLabels ==
  {<<"1", "-", ">", "2">>, <<"2", "-", ">", "1">>, <<"1", "-", "2">>,
   <<"2", "-", "1">>, <<"1", "1", "-", "1", "4">>, <<"1", "-", "1", "5">>,
   <<"x">>, <<>>}

DefaultLabel == <<"1", "-", ">", "2">>

\* the texts _parse_period is called with: the labels, and the period texts
\* the cell parsers hand over (the instructor's with the prefix removed, the
\* student's with the prefix still on)
InstructorPeriodTexts == Labels \cup CellLabels

StudentPeriodTexts ==
  Labels \cup {StudentPeriodPrefix \o <<" ">> \o label : label \in CellLabels}

Styles == {"instructor", "student"}

CycleLen == InstructorSpanCount

\* the text of the span at position i of a cell: the fields of a session
\* in the page's order, numbered by the run of seven the position is in
SpanText(style, label, i) ==
  LET k == ((i - 1) % CycleLen) + 1
      c == DigitChars[(((i - 1) \div CycleLen) % 10) + 1]
  IN IF style = "instructor"
     THEN CASE k = 1 -> <<" ", "S", c, " ">>
            [] k = 2 -> <<"-", "MaLHP:", " ", "C", c>>
            [] k = 3 -> <<"-", "Lop:", " ", "K", c>>
            [] k = 4 -> InstructorPeriodPrefix \o <<" ">> \o label
            [] k = 5 -> <<"-", "Daday:", " ", "1", c>>
            [] k = 6 -> <<"-", "Phong", " ", ":", " ", "P", c>>
            [] OTHER -> <<"-", "Noidung", " ", ":">>
     ELSE CASE k = 1 -> <<" ", "S", c, " ">>
            [] k = 2 -> <<"-", " ", "Nhom:", " ", "C", c>>
            [] k = 3 -> <<"-", " ", "Lop:", " ", "K", c>>
            [] k = 4 -> StudentPeriodPrefix \o <<" ">> \o label
            [] k = 5 -> <<"-", " ", "Phong:", " ", "P", c>>
            [] k = 6 -> <<"-", " ", "GV:", " ", "G", c>>
            [] OTHER -> <<"X", c>>

\* the blocks of a cell whose runs of spans have the lengths runs[1],
\* runs[2], ... with an <hr> between two runs; the span at position bad
\* (if any) is one whose text cannot be read
RECURSIVE CellShape(_)
CellShape(runs) ==
  IF runs = <<>> THEN <<>>
  ELSE [i \in 1..Head(runs) |-> "span"]
         \o (IF Len(runs) > 1 THEN <<"hr">> ELSE <<>>)
         \o CellShape(Tail(runs))

MkCell(runs, style, label, bad) ==
  LET shape == CellShape(runs)
  IN [i \in 1..Len(shape) |->
        IF shape[i] = "hr" THEN Hr
        ELSE Span(SpanText(style, label, i), i = bad)]

\* run lengths: none, one short of a student session, a student session,
\* and the longest
RunLens == {0, StudentSpanCount - 1, StudentSpanCount, MaxRun}

RunSeqs == UNION {[1..k -> RunLens] : k \in 1..MaxRuns}

\* the cells: every shape with the default label and at most one unreadable
\* span, and the single runs with every label
Cells ==
  {MkCell(runs, style, DefaultLabel, bad) :
     runs \in RunSeqs, style \in Styles, bad \in 0..MaxBad}
  \cup {MkCell(<<n>>, style, label, 0) :
          n \in RunLens, style \in Styles, label \in CellLabels}

\* page headers
WeekPrefixes ==
  {<<"Tuan", " ", "3", ":">>, <<"Tuan", " ", "1", "2", ":">>, <<"Tuan", ":">>}

Date1 == <<"0", "5", "/", "0", "2", "/", "2", "0", "2", "4">>
Date2 == <<"1", "1", "/", "0", "2", "/", "2", "0", "2", "4">>
ShortDate == <<"5", "/", "2", "/", "2", "0", "2", "4">>

DateTexts == {Date1, Date2, ShortDate}

DateLists == UNION {[1..k -> DateTexts] : k \in 0..MaxDates}

RECURSIVE JoinDates(_)
JoinDates(ds) ==
  IF ds = <<>> THEN <<>> ELSE <<" ">> \o Head(ds) \o JoinDates(Tail(ds))

WeekSpans == {p \o JoinDates(ds) : p \in WeekPrefixes, ds \in DateLists}

OwnerSpans ==
  {InstructorOwnerLabel \o <<" ", "A", "n", " ">>,
   StudentOwnerLabel \o <<" ", "K", "4", "8">>}

NoHeader == [div |-> FALSE, spans |-> <<>>]

Headers ==
  {NoHeader}
  \cup {[div |-> TRUE, spans |-> SubSeq(<<w, o, <<"extra">> >>, 1, n)] :
          w \in WeekSpans, o \in OwnerSpans, n \in 0..3}

\* pages
EmptyCell == <<>>
InstructorCell == MkCell(<<7>>, "instructor", DefaultLabel, 0)
StudentCell == MkCell(<<6, 6>>, "student", <<"1", "-", "2">>, 0)
UnreadableCell == MkCell(<<7, 6>>, "instructor", DefaultLabel, 2)

HeaderRow == <<>>

DataRows ==
  {<<EmptyCell, EmptyCell, EmptyCell>>,
   <<InstructorCell, EmptyCell, EmptyCell>>,
   <<EmptyCell, StudentCell, EmptyCell>>,
   <<UnreadableCell, InstructorCell, StudentCell>>,
   <<EmptyCell, EmptyCell>>}

GoodHeader(style) ==
  [div |-> TRUE,
   spans |-> << <<"Tuan", " ", "3", ":", " ">> \o Date1 \o <<" ">> \o Date2,
                (IF style = "instructor" THEN InstructorOwnerLabel
                 ELSE StudentOwnerLabel) \o <<" ", "A", "n">> >>]

PageHeaders ==
  {GoodHeader("instructor"), GoodHeader("student"), NoHeader,
   [div |-> TRUE, spans |-> << <<"Tuan", " ", "3", ":", " ">> \o Date1 >>],
   [div |-> TRUE,
    spans |-> << <<"Tuan", " ", "3", ":", " ">> \o Date1, <<"A", "n">> >>],
   [div |-> TRUE,
    spans |-> << <<"Tuan", ":", " ">> \o Date1 \o <<" ">> \o Date2,
                 <<"A", "n">> >>]}

RowLists == UNION {[1..k -> DataRows] : k \in 0..MaxRows}

Pages ==
  {[table |-> FALSE, rows |-> <<>>, header |-> h] : h \in PageHeaders}
  \cup {[table |-> TRUE, rows |-> <<>>, header |-> h] : h \in PageHeaders}
  \cup {[table |-> TRUE, rows |-> <<HeaderRow>> \o rs, header |-> h] :
          rs \in RowLists, h \in PageHeaders}

\* the long pages: up to MaxDataRows data rows, each with one session in its
\* morning cell whose period text is the number of the row; the row at
\* position short (if any) has two cells only
NumberedRow(style, i, short) ==
  IF i = short THEN <<EmptyCell, EmptyCell>>
  ELSE <<MkCell(<<InstructorSpanCount>>, style,
                <<DigitChars[(i % 10) + 1]>>, 0),
         EmptyCell, EmptyCell>>

LongPages ==
  {[table |-> TRUE,
    rows |-> <<HeaderRow>> \o [i \in 1..k |-> NumberedRow(style, i, short)],
    header |-> GoodHeader(style)] :
     k \in 3..MaxDataRows, style \in Styles, short \in {0, 1, 2, 7}}

\* a student cell whose class name is written on two lines
MultiLineCell ==
  [i \in 1..StudentSpanCount |->
     Span(IF i = 3
          THEN <<"-", " ", "Lop:", " ", "K", "4", "8", "\n", "A", "\n">>
          ELSE SpanText("student", <<"1", "-", "2">>, i),
          FALSE)]

MultiLinePage ==
  [table |-> TRUE,
   rows |-> <<HeaderRow, <<MultiLineCell, EmptyCell, EmptyCell>> >>,
   header |-> GoodHeader("student")]

\* a student page whose session is labelled from period 2 to period 1
ReversedPage ==
  [table |-> TRUE,
   rows |-> <<HeaderRow,
              <<MkCell(<<StudentSpanCount>>, "student", <<"2", "-", "1">>, 0),
                EmptyCell, EmptyCell>> >>,
   header |-> GoodHeader("student")]

AllPages == Pages \cup LongPages \cup {MultiLinePage, ReversedPage}

Envs == [seed : 0..1, t0 : 0..1, drift : 0..1]

\* the models handed to the calendar generators directly.  A session of
\* style "student" has the keys of StudentSession.to_dict, one of style
\* "instructor" the keys of a ClassSession and, when timed, time_begin and
\* time_end as well; name is written into its text fields
ModelSession(style, name, timed) ==
  LET common == [subject |-> <<"S">> \o name,
                 class_code |-> <<"C">> \o name,
                 class_name |-> <<"K">> \o name,
                 period |-> <<"1", "-", ">", "2">>,
                 period_begin |-> 1,
                 period_end |-> 2,
                 room |-> <<"P">> \o name]
      times == [time_begin |-> <<"0", "7", ":", "3", "0">>,
                time_end |-> <<"0", "9", ":", "0", "5">>]
  IN IF style = "student"
     THEN common @@ times @@ [teacher_name |-> <<"G">> \o name]
     ELSE IF timed
          THEN common @@ times
                 @@ [taught_lessons |-> <<"1", "0">>, content |-> <<>>]
          ELSE common @@ [taught_lessons |-> <<"1", "0">>, content |-> <<>>]

\* an empty session object: {}
EmptySession == [k \in {} |-> <<>>]

Day(day, morning, afternoon, evening) ==
  [day |-> day, morning |-> morning, afternoon |-> afternoon,
   evening |-> evening]

\* one session on every day of the week
WeekSchedule(style) ==
  [i \in 1..Len(days) |->
     Day(days[i], <<>>, <<ModelSession(style, <<DigitChars[i + 1]>>, TRUE)>>,
         <<>>)]

\* the schedules of the models, by number
ModelSchedule(style, n) ==
  CASE n = 1 -> <<>>
    [] n = 2 -> WeekSchedule(style)
    [] n = 3 -> <<Day("Thu 4",
                      <<ModelSession(style, <<"1">>, TRUE), EmptySession,
                        ModelSession(style, <<"2">>, TRUE)>>,
                      <<ModelSession(style, <<"3">>, TRUE)>>,
                      <<EmptySession, ModelSession(style, <<"4">>, TRUE)>>),
                  Day("Thu 2", <<>>, <<>>,
                      <<ModelSession(style, <<"5">>, TRUE)>>)>>
    [] n = 4 -> <<Day("Thu 2", <<ModelSession(style, <<"1">>, TRUE)>>,
                      <<>>, <<>>),
                  Day("Thu 8", <<>>, <<>>, <<>>)>>
    [] n = 5 -> <<Day("Thu 3",
                      <<ModelSession(style, <<"1", "\n", "2">>, TRUE)>>,
                      <<>>, <<>>)>>
    [] OTHER -> <<Day("Thu 2", <<ModelSession(style, <<"1">>, FALSE)>>,
                      <<>>, <<>>)>>

ModelScheduleCount == 6

YearEnd == <<"2", "9", "/", "1", "2", "/", "2", "0", "2", "5">>
LeapFebruary == <<"2", "6", "/", "0", "2", "/", "2", "0", "2", "4">>
PlainFebruary == <<"2", "4", "/", "0", "2", "/", "2", "0", "2", "5">>
NoSuchDay == <<"3", "1", "/", "0", "2", "/", "2", "0", "2", "4">>
NoLeapDay == <<"2", "9", "/", "0", "2", "/", "2", "0", "2", "3">>

StartDates ==
  {Date1, ShortDate, YearEnd, LeapFebruary, PlainFebruary, NoSuchDay,
   NoLeapDay, Unknown, <<>>}

Metadatas ==
  {[week_number |-> 3, start_date |-> d, end_date |-> Date2,
    owner |-> <<"A", "n">>] : d \in StartDates}
  \cup {[week_number |-> 3, end_date |-> Date2, owner |-> <<"A", "n">>]}

\* the models: with and without the two keys
ModelsOf(style, n) ==
  {[metadata |-> m, schedule |-> ModelSchedule(style, n)] :
     m \in Metadatas}
  \cup {[metadata |-> [week_number |-> 3, start_date |-> Date1,
                       end_date |-> Date2, owner |-> <<"A", "n">>]],
        [schedule |-> ModelSchedule(style, n)]}

----------------------------------------------------------------------------
(* The state machine.  crawler is the crawler object in use ("none" before  *)
(* the first is constructed) and period_map its self.period_map (only the   *)
(* student crawler has one).  call is the call in progress: its name, its   *)
(* argument and its result.  Calls are made one at a time: Return ends a    *)
(* call before the next one starts.                                         *)

NoValue == <<>>

Idle == op \in {"none", "return"}

\* MainWindow.__init__: no schedule, no file, the fetch button enabled and
\* the two export buttons disabled
MainWindow_init ==
  [current_schedule |-> None,
   last_ics_file |-> None,
   file_label |-> "No file selected",
   fetch_button |-> TRUE,
   export_ics_button |-> FALSE,
   export_button |-> FALSE]

\* no worker thread has been started
NoThreads == [crawler_worker |-> 0, ics_worker |-> <<>>]

\* no parse invocation is in progress
NoInvocation == [pc |-> "idle"]

MaxInvocations == 2

Invocations == 1..MaxInvocations

Init ==
  /\ crawler = "none"
  /\ period_map = EmptyDict
  /\ call = <<"none", NoValue, NoValue>>
  /\ window = MainWindow_init
  /\ threads = NoThreads
  /\ events = <<>>
  /\ invocations = [t \in Invocations |-> NoInvocation]

\* ScheduleCrawler(): the object has no period_map
ScheduleCrawler_init ==
  /\ Idle
  /\ crawler' = "instructor"
  /\ period_map' = EmptyDict
  /\ call' = <<"ScheduleCrawler.__init__", NoValue, NoValue>>
  /\ UNCHANGED shell

\* StudentScheduleCrawler(): self.period_map = self._initialize_period_map()
StudentScheduleCrawler_init ==
  /\ Idle
  /\ crawler' = "student"
  /\ period_map' = initialize_period_map
  /\ call' = <<"StudentScheduleCrawler.__init__", NoValue, NoValue>>
  /\ UNCHANGED shell

InstructorParsePeriod ==
  /\ Idle
  /\ crawler = "instructor"
  /\ \E period_str \in InstructorPeriodTexts :
       call' = <<"ScheduleCrawler._parse_period", period_str,
                 ScheduleCrawler_parse_period(period_str)>>
  /\ UNCHANGED <<crawler, period_map, shell>>

StudentParsePeriod ==
  /\ Idle
  /\ crawler = "student"
  /\ \E period_str \in StudentPeriodTexts :
       call' = <<"StudentScheduleCrawler._parse_period", period_str,
                 StudentScheduleCrawler_parse_period(period_str)>>
  /\ UNCHANGED <<crawler, period_map, shell>>

InstructorParseClassCell ==
  /\ Idle
  /\ crawler = "instructor"
  /\ \E cell \in Cells :
       call' = <<"ScheduleCrawler._parse_class_cell", cell,
                 ScheduleCrawler_parse_class_cell(cell)>>
  /\ UNCHANGED <<crawler, period_map, shell>>

StudentParseClassCell ==
  /\ Idle
  /\ crawler = "student"
  /\ \E cell \in Cells :
       call' = <<"StudentScheduleCrawler._parse_class_cell", cell,
                 StudentScheduleCrawler_parse_class_cell(cell, period_map)>>
  /\ UNCHANGED <<crawler, period_map, shell>>

InstructorExtractWeekInfo ==
  /\ Idle
  /\ crawler = "instructor"
  /\ \E header \in Headers :
       call' = <<"ScheduleCrawler._extract_week_info", header,
                 ScheduleCrawler_extract_week_info(header)>>
  /\ UNCHANGED <<crawler, period_map, shell>>

StudentExtractMetadata ==
  /\ Idle
  /\ crawler = "student"
  /\ \E header \in Headers :
       call' = <<"StudentScheduleCrawler._extract_metadata", header,
                 StudentScheduleCrawler_extract_metadata(header)>>
  /\ UNCHANGED <<crawler, period_map, shell>>

InstructorParseSchedule ==
  /\ Idle
  /\ crawler = "instructor"
  /\ \E page \in AllPages :
       call' = <<"ScheduleCrawler.parse_schedule", page,
                 ScheduleCrawler_parse_schedule(page)>>
  /\ UNCHANGED <<crawler, period_map, shell>>

StudentParseSchedule ==
  /\ Idle
  /\ crawler = "student"
  /\ \E page \in AllPages :
       call' = <<"StudentScheduleCrawler.parse_schedule", page,
                 StudentScheduleCrawler_parse_schedule(page, period_map)>>
  /\ UNCHANGED <<crawler, period_map, shell>>

InstructorFetchSchedule ==
  /\ Idle
  /\ crawler = "instructor"
  /\ \E page \in AllPages :
       call' = <<"ScheduleCrawler.fetch_schedule", page,
                 ScheduleCrawler_fetch_schedule(page)>>
  /\ UNCHANGED <<crawler, period_map, shell>>

StudentFetchSchedule ==
  /\ Idle
  /\ crawler = "student"
  /\ \E page \in AllPages :
       call' = <<"StudentScheduleCrawler.fetch_schedule", page,
                 StudentScheduleCrawler_fetch_schedule(page, period_map)>>
  /\ UNCHANGED <<crawler, period_map, shell>>

\* the model the last fetch returned is handed to the calendar generator
InstructorExport ==
  /\ op = "ScheduleCrawler.fetch_schedule"
  /\ ret.ok
  /\ \E env \in Envs :
       call' = <<"ICSExporter.create_ics_content_from_data", ret.value,
                 ICSExporter_create_ics_content_from_data(ret.value, env)>>
  /\ UNCHANGED <<crawler, period_map, shell>>

StudentExport ==
  /\ op = "StudentScheduleCrawler.fetch_schedule"
  /\ ret.ok
  /\ \E env \in Envs :
       call' = <<"StudentICSExporter.create_ics_content_from_data",
                 ret.value,
                 StudentICSExporter_create_ics_content_from_data(ret.value,
                                                                 env)>>
  /\ UNCHANGED <<crawler, period_map, shell>>

\* the generators are also called with models built elsewhere
InstructorCreateIcs ==
  /\ Idle
  /\ \E n \in 1..ModelScheduleCount :
       \E schedule_data \in ModelsOf("instructor", n) :
         \E env \in Envs :
           call' = <<"ICSExporter.create_ics_content_from_data",
                     schedule_data,
                     ICSExporter_create_ics_content_from_data(schedule_data,
                                                              env)>>
  /\ UNCHANGED <<crawler, period_map, shell>>

StudentCreateIcs ==
  /\ Idle
  /\ \E n \in 1..ModelScheduleCount :
       \E schedule_data \in ModelsOf("student", n) :
         \E env \in Envs :
           call' = <<"StudentICSExporter.create_ics_content_from_data",
                     schedule_data,
                     StudentICSExporter_create_ics_content_from_data(
                       schedule_data, env)>>
  /\ UNCHANGED <<crawler, period_map, shell>>

Return ==
  /\ ~Idle
  /\ call' = <<"return", NoValue, NoValue>>
  /\ UNCHANGED <<crawler, period_map, shell>>

Next ==
  \/ ScheduleCrawler_init
  \/ StudentScheduleCrawler_init
  \/ InstructorParsePeriod
  \/ StudentParsePeriod
  \/ InstructorParseClassCell
  \/ StudentParseClassCell
  \/ InstructorExtractWeekInfo
  \/ StudentExtractMetadata
  \/ InstructorParseSchedule
  \/ StudentParseSchedule
  \/ InstructorFetchSchedule
  \/ StudentFetchSchedule
  \/ InstructorExport
  \/ StudentExport
  \/ InstructorCreateIcs
  \/ StudentCreateIcs
  \/ Return

Spec == Init /\ [][Next]_vars

----------------------------------------------------------------------------
(* The application window (src/app.py).  A click is taken only on an       *)
(* enabled button.  A signal emitted by a worker thread is queued for the  *)
(* window's thread and handled in the order of emission; a signal emitted  *)
(* in the window's thread is handled inside the emit.  Progress signals,   *)
(* labels, tables and message boxes are not part of the state.             *)

MaxIcsWorkers == 2

EmptyWeekRows == <<HeaderRow, <<EmptyCell, EmptyCell, EmptyCell>> >>

\* the pages the server answers a fetch with: an empty week, an empty week
\* without header, a week with one session, a page without table
AppPages ==
  {[table |-> TRUE, rows |-> EmptyWeekRows,
    header |-> GoodHeader("instructor")],
   [table |-> TRUE, rows |-> EmptyWeekRows, header |-> NoHeader],
   [table |-> TRUE,
    rows |-> <<HeaderRow, <<InstructorCell, EmptyCell, EmptyCell>> >>,
    header |-> GoodHeader("instructor")],
   [table |-> FALSE, rows |-> <<>>, header |-> NoHeader]}

\* the files the user can select, and json.load of each
AppFiles == {"schedule_20240205.json", "notes.txt"}

FileContent(schedule_file) ==
  IF schedule_file = "schedule_20240205.json"
  THEN Ok([metadata |-> [week_number |-> 3, start_date |-> Date1,
                         end_date |-> Date2, owner |-> <<"A", "n">>],
           schedule |->
             <<Day("Thu 2", <<ModelSession("instructor", <<"1">>, TRUE)>>,
                   <<>>, <<>>)>>])
  ELSE Raise("JSONDecodeError")

\* the clock and the identifiers of a generation: the text of a document is
\* not kept in the window, only whether it was made
AppEnvs == {env \in Envs : env.seed = 0 /\ env.t0 = 0 /\ env.drift = 0}

\* ICSExporter.create_ics_content
GeneratedFromFile(schedule_data, env) ==
  IF schedule_data.ok
  THEN ICSExporter_generate_ics_content(schedule_data.value, env)
  ELSE schedule_data

ICSExporter_create_ics_content(schedule_file, env) ==
  WrapException(GeneratedFromFile(FileContent(schedule_file), env))

\* the keys update_schedule_table reads from every non-empty session
TableKeys ==
  <<"time_begin", "time_end", "subject", "room", "class_name", "class_code",
    "period", "taught_lessons">>

\* MainWindow.update_schedule_table raises KeyError at the first non-empty
\* session that lacks one of the keys
TableRowsRaise(sessions) ==
  \E k \in 1..Len(sessions) :
    DOMAIN sessions[k] # {} /\ ~HasKeys(sessions[k], TableKeys)

MainWindow_update_schedule_table(schedule) ==
  IF \E i \in 1..Len(schedule.schedule) :
       TableRowsRaise(DaySessions(schedule.schedule[i]))
  THEN Raise("KeyError")
  ELSE Ok(NoValue)

\* the except branch of handle_crawler_result
CrawlerResultFailed(w) ==
  [w EXCEPT !.current_schedule = None,
            !.export_ics_button = FALSE,
            !.fetch_button = TRUE]

\* the try branch of handle_crawler_result
CrawlerResultShown(w, schedule) ==
  [w EXCEPT !.current_schedule = Some(schedule),
            !.export_ics_button = TRUE,
            !.fetch_button = TRUE]

\* handle_crawler_result: saved is whether the JSON file could be written
MainWindow_handle_crawler_result(w, schedule, saved) ==
  IF saved /\ MainWindow_update_schedule_table(schedule).ok
  THEN CrawlerResultShown(w, schedule)
  ELSE CrawlerResultFailed(w)

\* the fetch button stays disabled after an error
MainWindow_handle_crawler_error_stuck(w) ==
  [w EXCEPT !.current_schedule = None,
            !.export_ics_button = FALSE]

MainWindow_handle_crawler_error(w) ==
  [w EXCEPT !.current_schedule = None,
            !.export_ics_button = FALSE,
            !.fetch_button = TRUE]

\* handle_ics_result: saved is whether the calendar file could be written
MainWindow_handle_ics_result(w, saved) ==
  [w EXCEPT !.last_ics_file =
              IF saved THEN Some("teaching_schedule.ics") ELSE @,
            !.export_button = TRUE,
            !.export_ics_button = TRUE]

MainWindow_handle_ics_error(w) == [w EXCEPT !.export_button = TRUE]

\* the signal a CrawlerWorker emits for the result of fetch_schedule
CrawlerSignal(schedule) ==
  IF schedule.ok
  THEN [signal |-> "CrawlerWorker.finished", schedule |-> schedule.value]
  ELSE [signal |-> "CrawlerWorker.error", error_msg |-> schedule.exc]

\* the signal an ICSWorker emits for the result of create_ics_content
IcsSignal(ics_content) ==
  IF ics_content.ok
  THEN [signal |-> "ICSWorker.finished"]
  ELSE [signal |-> "ICSWorker.error", error_msg |-> ics_content.exc]

\* what the server did with the request: answered with page, or not at all
Fetched(page, answered) ==
  IF answered THEN ScheduleCrawler_fetch_schedule(page)
  ELSE Raise("RequestException")

\* the signals a CrawlerWorker can emit, one for every answer of the server
CrawlerSignals ==
  {CrawlerSignal(Fetched(page, answered)) :
     page \in AppPages, answered \in BOOLEAN}

\* the signals an ICSWorker can emit for a file
IcsSignals ==
  [schedule_file \in AppFiles |->
     {IcsSignal(ICSExporter_create_ics_content(schedule_file, env)) :
        env \in AppEnvs}]

\* the sequence s without its i-th element
Without(s, i) == SubSeq(s, 1, i - 1) \o SubSeq(s, i + 1, Len(s))

Signalled(signal) == events # <<>> /\ Head(events).signal = signal

\* the ICSWorker threads that run or whose signal waits in the queue
IcsInFlight ==
  Len(threads.ics_worker)
    + Cardinality({i \in 1..Len(events) :
                     events[i].signal
                       \in {"ICSWorker.finished", "ICSWorker.error"}})

\* MainWindow.fetch_schedule
FetchClicked ==
  /\ window.fetch_button
  /\ window' = [window EXCEPT !.fetch_button = FALSE]
  /\ threads' = [threads EXCEPT !.crawler_worker = @ + 1]
  /\ call' = <<"MainWindow.fetch_schedule", NoValue, "done">>
  /\ UNCHANGED <<crawler, period_map, events, invocations>>

\* CrawlerWorker.run, in its own thread
CrawlerWorker_run ==
  /\ threads.crawler_worker > 0
  /\ \E emitted \in CrawlerSignals : events' = Append(events, emitted)
  /\ threads' = [threads EXCEPT !.crawler_worker = @ - 1]
  /\ UNCHANGED <<crawler, period_map, call, window, invocations>>

CrawlerWorker_finished ==
  /\ Signalled("CrawlerWorker.finished")
  /\ \E saved \in BOOLEAN :
       window' = MainWindow_handle_crawler_result(window,
                                                  Head(events).schedule,
                                                  saved)
  /\ events' = Tail(events)
  /\ call' = <<"MainWindow.handle_crawler_result", NoValue, "done">>
  /\ UNCHANGED <<crawler, period_map, threads, invocations>>

CrawlerWorker_error ==
  /\ Signalled("CrawlerWorker.error")
  /\ window' = MainWindow_handle_crawler_error(window)
  /\ events' = Tail(events)
  /\ call' = <<"MainWindow.handle_crawler_error", NoValue, "done">>
  /\ UNCHANGED <<crawler, period_map, threads, invocations>>

\* MainWindow.select_schedule_file with a file chosen in the dialog
SelectFileClicked ==
  /\ \E file_name \in AppFiles :
       window' = [window EXCEPT !.file_label = file_name,
                                !.export_button = TRUE]
  /\ call' = <<"MainWindow.select_schedule_file", NoValue, "done">>
  /\ UNCHANGED <<crawler, period_map, threads, events, invocations>>

\* MainWindow.export_to_ics without a file: the warning
ExportClickedWithoutFile ==
  /\ window.export_button
  /\ window.file_label = "No file selected"
  /\ call' = <<"MainWindow.export_to_ics", NoValue, "warning">>
  /\ UNCHANGED <<crawler, period_map, window, threads, events, invocations>>

\* MainWindow.export_to_ics: an ICSWorker is started on the file
ExportClicked ==
  /\ window.export_button
  /\ window.file_label # "No file selected"
  /\ IcsInFlight < MaxIcsWorkers
  /\ window' = [window EXCEPT !.export_button = FALSE]
  /\ threads' = [threads EXCEPT !.ics_worker = Append(@, window.file_label)]
  /\ call' = <<"MainWindow.export_to_ics", NoValue, "started">>
  /\ UNCHANGED <<crawler, period_map, events, invocations>>

\* ICSWorker.run, in its own thread
ICSWorker_run ==
  /\ \E i \in 1..Len(threads.ics_worker) :
       /\ \E emitted \in IcsSignals[threads.ics_worker[i]] :
            events' = Append(events, emitted)
       /\ threads' = [threads EXCEPT !.ics_worker = Without(@, i)]
  /\ UNCHANGED <<crawler, period_map, call, window, invocations>>

ICSWorker_finished ==
  /\ Signalled("ICSWorker.finished")
  /\ \E saved \in BOOLEAN :
       window' = MainWindow_handle_ics_result(window, saved)
  /\ events' = Tail(events)
  /\ call' = <<"MainWindow.handle_ics_result", NoValue, "done">>
  /\ UNCHANGED <<crawler, period_map, threads, invocations>>

ICSWorker_error ==
  /\ Signalled("ICSWorker.error")
  /\ window' = MainWindow_handle_ics_error(window)
  /\ events' = Tail(events)
  /\ call' = <<"MainWindow.handle_ics_error", NoValue, "done">>
  /\ UNCHANGED <<crawler, period_map, threads, invocations>>

\* MainWindow.export_current_to_ics without a schedule: the warning
ExportCurrentClickedWithoutSchedule ==
  /\ window.export_ics_button
  /\ window.current_schedule.isNone
  /\ call' = <<"MainWindow.export_current_to_ics", NoValue, "warning">>
  /\ UNCHANGED <<crawler, period_map, window, threads, events, invocations>>

\* ICSWorker.create_from_data in the window's thread: the handler of the
\* signal it emits runs before export_current_to_ics returns
CreatedFromData(w, ics_content, saved) ==
  IF ics_content.ok THEN MainWindow_handle_ics_result(w, saved)
  ELSE MainWindow_handle_ics_error(w)

MainWindow_export_current_to_ics(w, env, saved) ==
  CreatedFromData([w EXCEPT !.export_ics_button = FALSE],
                  ICSExporter_create_ics_content_from_data(
                    w.current_schedule.value, env),
                  saved)

ExportCurrentClicked ==
  /\ window.export_ics_button
  /\ ~window.current_schedule.isNone
  /\ \E env \in AppEnvs :
       \E saved \in BOOLEAN :
         /\ window' = MainWindow_export_current_to_ics(window, env, saved)
         /\ call' = <<"MainWindow.export_current_to_ics", NoValue,
                      IcsSignal(ICSExporter_create_ics_content_from_data(
                                  window.current_schedule.value, env)).signal>>
  /\ UNCHANGED <<crawler, period_map, threads, events, invocations>>

AppNext ==
  \/ FetchClicked
  \/ CrawlerWorker_run
  \/ CrawlerWorker_finished
  \/ CrawlerWorker_error
  \/ SelectFileClicked
  \/ ExportClickedWithoutFile
  \/ ExportClicked
  \/ ICSWorker_run
  \/ ICSWorker_finished
  \/ ICSWorker_error
  \/ ExportCurrentClickedWithoutSchedule
  \/ ExportCurrentClicked

\* a started thread runs to its signal, and the event loop of the window
\* handles every queued signal; the user is not bound to click
AppFairness ==
  /\ WF_vars(CrawlerWorker_run)
  /\ WF_vars(ICSWorker_run)
  /\ WF_vars(CrawlerWorker_finished)
  /\ WF_vars(CrawlerWorker_error)
  /\ WF_vars(ICSWorker_finished)
  /\ WF_vars(ICSWorker_error)

AppSpec == Init /\ [][AppNext]_vars /\ AppFairness

----------------------------------------------------------------------------
(* Interleaved parse invocations.  Every invocation is a thread that       *)
(* constructs its own crawler and runs parse_schedule on its own markup,   *)
(* as CrawlerWorker.run does; the names soup, schedule, rows, days of      *)
(* parse_schedule are locals of the call.  A step is the construction, the *)
(* lookup of the table, one iteration of the loop over the rows, or the    *)
(* return.                                                                 *)

\* the markup handed to the invocations
ParPages ==
  {[table |-> FALSE, rows |-> <<>>, header |-> NoHeader],
   [table |-> TRUE,
    rows |-> <<HeaderRow, <<InstructorCell, EmptyCell, EmptyCell>>,
               <<EmptyCell, StudentCell, EmptyCell>> >>,
    header |-> GoodHeader("instructor")],
   [table |-> TRUE,
    rows |-> <<HeaderRow, <<EmptyCell, StudentCell, InstructorCell>>,
               <<EmptyCell, EmptyCell>> >>,
    header |-> GoodHeader("student")]}

\* the frame of a call of parse_schedule on the crawler self
Frame(style, page, pmap) ==
  [pc |-> "constructed", style |-> style, page |-> page, period_map |-> pmap,
   rows |-> <<>>, i |-> 0, schedule |-> <<>>, ret |-> NoValue]

\* every invocation reads the accumulator of the first one
OwnSchedule_shared(invs, t) ==
  IF invs[1].pc = "idle" THEN <<>> ELSE invs[1].schedule

\* schedule = {} is a local name of the call
OwnSchedule(invs, t) == invs[t].schedule

\* crawler = ScheduleCrawler() or StudentScheduleCrawler()
Construct(t) ==
  /\ invocations[t].pc = "idle"
  /\ \E style \in Styles :
       \E page \in ParPages :
         invocations' =
           [invocations EXCEPT
              ![t] = Frame(style, page,
                           IF style = "student" THEN initialize_period_map
                           ELSE EmptyDict)]
  /\ UNCHANGED <<crawler, period_map, call, window, threads, events>>

\* schedule = {}; soup.find('table'); rows = ...find_all('tr')[1:]
Begun(inv) ==
  IF inv.page.table
  THEN [inv EXCEPT !.pc = "rows",
                   !.rows = SkipHeaderRow(inv.page.rows),
                   !.i = 1,
                   !.schedule = <<>>]
  ELSE [inv EXCEPT !.pc = "done",
                   !.ret = IF inv.style = "student"
                           THEN Raise("Schedule table not found in HTML content")
                           ELSE Raise("AttributeError")]

ParseBegin(t) ==
  /\ invocations[t].pc = "constructed"
  /\ invocations' = [invocations EXCEPT ![t] = Begun(invocations[t])]
  /\ UNCHANGED <<crawler, period_map, call, window, threads, events>>

\* schedule[day] = ... of one iteration of the loop
ParsedDay(inv) ==
  LET cells == inv.rows[inv.i]
  IN IF inv.style = "student"
     THEN [day |-> student_days[inv.i],
           morning |-> StudentSlot(cells[1], inv.period_map),
           afternoon |-> StudentSlot(cells[2], inv.period_map),
           evening |-> StudentSlot(cells[3], inv.period_map)]
     ELSE [day |-> days[inv.i],
           morning |-> InstructorSlot(cells[1]),
           afternoon |-> InstructorSlot(cells[2]),
           evening |-> InstructorSlot(cells[3])]

\* one iteration of for row, day in zip(rows, days) with the accumulator
\* schedule: a short row is left out (student) or an IndexError
\* (instructor)
RowParsed(inv, schedule) ==
  IF Len(inv.rows[inv.i]) >= SlotCount
  THEN [inv EXCEPT !.i = inv.i + 1,
                   !.schedule = Append(schedule, ParsedDay(inv))]
  ELSE IF inv.style = "student"
       THEN [inv EXCEPT !.i = inv.i + 1, !.schedule = schedule]
       ELSE [inv EXCEPT !.pc = "done", !.ret = Raise("IndexError")]

ParseRow(t) ==
  /\ invocations[t].pc = "rows"
  /\ invocations[t].i <= Min(Len(invocations[t].rows), Len(days))
  /\ invocations' =
       [invocations EXCEPT
          ![t] = RowParsed(invocations[t], OwnSchedule(invocations, t))]
  /\ UNCHANGED <<crawler, period_map, call, window, threads, events>>

\* return schedule
ParseReturn(t) ==
  /\ invocations[t].pc = "rows"
  /\ invocations[t].i > Min(Len(invocations[t].rows), Len(days))
  /\ invocations' =
       [invocations EXCEPT
          ![t] = [invocations[t] EXCEPT
                    !.pc = "done",
                    !.ret = Ok(OwnSchedule(invocations, t))]]
  /\ UNCHANGED <<crawler, period_map, call, window, threads, events>>

\* the caller has the value; the thread ends
ThreadEnds(t) ==
  /\ invocations[t].pc = "done"
  /\ invocations' = [invocations EXCEPT ![t] = NoInvocation]
  /\ UNCHANGED <<crawler, period_map, call, window, threads, events>>

ParNext ==
  \E t \in Invocations :
    \/ Construct(t)
    \/ ParseBegin(t)
    \/ ParseRow(t)
    \/ ParseReturn(t)
    \/ ThreadEnds(t)

ParSpec == Init /\ [][ParNext]_vars

----------------------------------------------------------------------------
(* Operators the properties are stated with *)

\* the number of occurrences of the token tok in text
Count(text, tok) == Cardinality({i \in 1..Len(text) : text[i] = tok})

\* the sessions of a model, in day and slot order
RECURSIVE AllSessions(_)
AllSessions(schedule) ==
  IF schedule = <<>> THEN <<>>
  ELSE DaySessions(Head(schedule)) \o AllSessions(Tail(schedule))

\* the text s writes an integer, possibly between spaces
NumberText(s) == PyInt(s).ok

NumberOf(s) == PyInt(s).val

\* the positions at which s is "A sep B" with integers A and B
SepPositions(s, sep) ==
  {i \in 0..(Len(s) - Len(sep)) :
     /\ SubSeq(s, i + 1, i + Len(sep)) = sep
     /\ NumberText(SubSeq(s, 1, i))
     /\ NumberText(SubSeq(s, i + Len(sep) + 1, Len(s)))}

\* the pair the period-label rule assigns to s: (A, B) for "A sep B" with
\* A <= B, (0, 0) for every other text
LabelPair(s, sep) ==
  IF SepPositions(s, sep) = {} THEN <<0, 0>>
  ELSE LET i == CHOOSE k \in SepPositions(s, sep) : TRUE
           a == NumberOf(SubSeq(s, 1, i))
           b == NumberOf(SubSeq(s, i + Len(sep) + 1, Len(s)))
       IN IF a <= b THEN <<a, b>> ELSE <<0, 0>>

\* a student label without its optional "- Tiet:" prefix
WithoutPrefix(s) ==
  IF StartsWith(LStrip(s), StudentPeriodPrefix)
  THEN SubSeq(LStrip(s), Len(StudentPeriodPrefix) + 1, Len(LStrip(s)))
  ELSE s

\* the runs of spans of a cell, split at its <hr> separators
HrPositions(cell) == {i \in 1..Len(cell) : cell[i].name = "hr"}

RunAfter(cell, i) ==
  LET later == {j \in HrPositions(cell) : j > i}
      stop == IF later = {} THEN Len(cell) + 1
              ELSE CHOOSE j \in later : \A k \in later : j <= k
  IN SubSeq(cell, i + 1, stop - 1)

\* the run starts: position 0 and every separator, in document order
RunStarts(cell) ==
  LET starts == {0} \cup HrPositions(cell)
  IN [n \in 1..Cardinality(starts) |->
        CHOOSE i \in starts : Cardinality({j \in starts : j < i}) = n - 1]

RunsOf(cell) == [n \in 1..Len(RunStarts(cell)) |->
                   RunAfter(cell, RunStarts(cell)[n])]

Readable(spans, n) == \A i \in 1..n : ~spans[i].raises

\* the runs that are sessions: six spans or more, all six readable
SessionRuns(cell) ==
  SelectSeq(RunsOf(cell),
            LAMBDA r : Len(r) >= 6 /\ Readable(r, 6))

Minutes(hhmm) == StrptimeHM(hhmm)

SameBlock(p, q) ==
  \/ (p \in 1..6 /\ q \in 1..6)
  \/ (p \in 7..10 /\ q \in 7..10)
  \/ (p \in 11..14 /\ q \in 11..14)

----------------------------------------------------------------------------
(* The end-to-end scenario *)

E2EPage ==
  [table |-> TRUE,
   rows |-> <<HeaderRow,
              <<InstructorCell, EmptyCell, EmptyCell>>,
              <<EmptyCell, EmptyCell, EmptyCell>> >>,
   header |-> GoodHeader("instructor")]

E2EModel == ScheduleCrawler_fetch_schedule(E2EPage).value

\* C1: in instructor mode the page with a header row and two data rows,
\* only the first morning cell holding 7 well-formed fields with period
\* label "1->2", gives a model with exactly one session, and the calendar
\* generator turns that model into a document with exactly one VEVENT whose
\* SUMMARY is the subject and whose DTSTART / DTEND are 07:30 and 09:05 on
\* the start date.
C1_EndToEnd ==
  /\ (op = "ScheduleCrawler.fetch_schedule" /\ arg = E2EPage)
       => (ret.ok /\ Len(AllSessions(ret.value.schedule)) = 1)
  /\ (op = "ICSExporter.create_ics_content_from_data" /\ arg = E2EModel)
       => /\ ret.ok
          /\ Count(ret.value, "BEGIN:VEVENT") = 1
          /\ Contains(ret.value, <<"SUMMARY:", "S", "0", "\r">>)
          /\ Contains(ret.value,
                      <<"DTSTART;TZID=", "Asia/Ho_Chi_Minh", ":",
                        "2", "0", "2", "4", "0", "2", "0", "5", "T",
                        "0", "7", "3", "0", "0", "0", "\r">>)
          /\ Contains(ret.value,
                      <<"DTEND;TZID=", "Asia/Ho_Chi_Minh", ":",
                        "2", "0", "2", "4", "0", "2", "0", "5", "T",
                        "0", "9", "0", "5", "0", "0", "\r">>)

\* C2: the instructor _parse_period gives (A, B) for every label "A->B" and
\* the student _parse_period for every label "A-B" (with or without the
\* "- Tiet:" prefix) with integers A <= B, and (0, 0) for every other
\* input; no exception reaches the caller.
C2_PeriodLabelParsing ==
  /\ op = "ScheduleCrawler._parse_period" => ret = LabelPair(arg, Arrow)
  /\ op = "StudentScheduleCrawler._parse_period"
       => ret = LabelPair(WithoutPrefix(arg), Dash)

\* C3: every session record either Session Parser produces has
\* period_begin <= period_end, and a period text without a separator has
\* period_begin = period_end = 0; also for labels "A->B" / "A-B" with A > B.
C3_PeriodOrder ==
  /\ (op = "ScheduleCrawler._parse_class_cell" /\ ~ret.isNone)
       => /\ ret.value.period_begin <= ret.value.period_end
          /\ ~Contains(ret.value.period, Dash)
               => (ret.value.period_begin = 0 /\ ret.value.period_end = 0)
  /\ op = "StudentScheduleCrawler._parse_class_cell"
       => \A i \in 1..Len(ret) :
            /\ ret[i].period_begin <= ret[i].period_end
            /\ ~Contains(ret[i].period, Dash)
                 => (ret[i].period_begin = 0 /\ ret[i].period_end = 0)

\* C4: in the table built by _initialize_period_map every period 1..14
\* starts strictly before it ends, and of two consecutive periods of the
\* same block (1..6, 7..10, 11..14) the first ends no later than the second
\* starts.
C4_PeriodsDoNotOverlap ==
  crawler = "student" =>
    /\ \A p \in 1..14 :
         /\ p \in DOMAIN period_map
         /\ Minutes(period_map[p][1]) < Minutes(period_map[p][2])
    /\ \A p \in 1..13 :
         SameBlock(p, p + 1)
           => Minutes(period_map[p][2]) <= Minutes(period_map[p + 1][1])

C4_Witness ==
  /\ crawler = "student"
  /\ DOMAIN period_map = 1..14
  /\ op = "return"

\* C5: the Period Table has exactly the keys 1..14; every period lasts 45
\* minutes; periods 1, 7 and 11 start at 07:30, 13:00 and 16:40; within a
\* block the next period starts 5 minutes after the end of the previous
\* one, except 20 minutes after period 3 and 10 minutes after period 8; in
\* the evening block the starts are 50 minutes apart.
C5_PeriodTimes ==
  crawler = "student" =>
    /\ DOMAIN period_map = 1..14
    /\ \A p \in 1..14 :
         Minutes(period_map[p][2]) = Minutes(period_map[p][1]) + 45
    /\ period_map[1][1] = <<"0", "7", ":", "3", "0">>
    /\ period_map[7][1] = <<"1", "3", ":", "0", "0">>
    /\ period_map[11][1] = <<"1", "6", ":", "4", "0">>
    /\ \A p \in 1..13 :
         SameBlock(p, p + 1)
           => Minutes(period_map[p + 1][1])
                = Minutes(period_map[p][2])
                    + (IF p = 3 THEN 20 ELSE IF p = 8 THEN 10 ELSE 5)
    /\ \A p \in 11..13 :
         Minutes(period_map[p + 1][1]) = Minutes(period_map[p][1]) + 50

C5_Witness ==
  /\ crawler = "student"
  /\ 4 \in DOMAIN period_map
  /\ period_map[4] = << <<"1", "0", ":", "1", "5">>,
                        <<"1", "1", ":", "0", "0">> >>

\* C6: the instructor Session Parser turns a cell with at least 7 (readable)
\* span fields into exactly one session whose subject, class_code,
\* class_name, period, taught_lessons, room and content are the texts of
\* spans 0..6 in that order, label prefix removed and whitespace trimmed,
\* later spans being ignored; a cell with fewer than 7 spans gives no
\* session; so every slot of an instructor DaySchedule holds at most one
\* session.
C6_InstructorCell ==
  /\ op = "ScheduleCrawler._parse_class_cell" =>
       LET spans == find_all_span(arg)
       IN /\ Len(spans) < 7 => ret.isNone
          /\ (Len(spans) >= 7 /\ Readable(spans, 7)) =>
               /\ ~ret.isNone
               /\ ret.value.subject = Strip(spans[1].text)
               /\ ret.value.class_code
                    = Strip(Replace(spans[2].text, <<"-", "MaLHP:">>))
               /\ ret.value.class_name
                    = Strip(Replace(spans[3].text, <<"-", "Lop:">>))
               /\ ret.value.period
                    = Strip(Replace(spans[4].text, <<"-", "Tiet:">>))
               /\ ret.value.taught_lessons
                    = Strip(Replace(spans[5].text, <<"-", "Daday:">>))
               /\ ret.value.room
                    = Strip(Replace(spans[6].text,
                                    <<"-", "Phong", " ", ":">>))
               /\ ret.value.content
                    = Strip(Replace(spans[7].text,
                                    <<"-", "Noidung", " ", ":">>))
  /\ (op = "ScheduleCrawler.fetch_schedule" /\ ret.ok) =>
       \A i \in 1..Len(ret.value.schedule) :
         /\ Len(ret.value.schedule[i].morning) <= 1
         /\ Len(ret.value.schedule[i].afternoon) <= 1
         /\ Len(ret.value.schedule[i].evening) <= 1

C6_Witness ==
  /\ op = "ScheduleCrawler._parse_class_cell"
  /\ Len(find_all_span(arg)) > 7
  /\ Readable(find_all_span(arg), 7)
  /\ ~ret.isNone
  /\ ret.value.room = <<"P", "0">>

\* C7: the student Session Parser splits the spans of a cell into runs at
\* every <hr>; each run with at least 6 (readable) spans gives exactly one
\* session read positionally from its first 6 spans, each shorter run (an
\* empty run included) gives none, a dropped run changes nothing about the
\* sessions of the other runs, and the sessions are in the document order
\* of their runs.
C7_StudentCell ==
  op = "StudentScheduleCrawler._parse_class_cell" =>
    LET runs == SessionRuns(arg)
    IN /\ Len(ret) = Len(runs)
       /\ \A i \in 1..Len(runs) :
            /\ i <= Len(ret)
            /\ ret[i].subject = Strip(runs[i][1].text)
            /\ ret[i].class_code
                 = Strip(Replace(runs[i][2].text, <<"-", " ", "Nhom:">>))
            /\ ret[i].class_name
                 = Strip(Replace(runs[i][3].text, <<"-", " ", "Lop:">>))
            /\ ret[i].period = Strip(runs[i][4].text)
            /\ ret[i].room
                 = Strip(Replace(runs[i][5].text, <<"-", " ", "Phong:">>))
            /\ ret[i].teacher_name
                 = Strip(Replace(runs[i][6].text, <<"-", " ", "GV:">>))

C7_Witness ==
  /\ op = "StudentScheduleCrawler._parse_class_cell"
  /\ Len(RunsOf(arg)) = 3
  /\ Len(RunsOf(arg)[1]) >= 6
  /\ Len(RunsOf(arg)[2]) < 6
  /\ Len(RunsOf(arg)[3]) >= 6
  /\ Len(ret) = 2
  /\ ret[1].subject # ret[2].subject

\* C8: in both modes the cell parser returns normally for every cell: a
\* cell with no span gives no session, and a failure while a field is
\* extracted gives no session for that cell (or run) and no exception to
\* parse_schedule, so the other cells and rows of the page are still parsed.
C8_CellFailuresAbsorbed ==
  /\ op = "ScheduleCrawler._parse_class_cell" =>
       /\ find_all_span(arg) = <<>> => ret.isNone
       /\ (Len(find_all_span(arg)) >= 7 /\ ~Readable(find_all_span(arg), 7))
            => ret.isNone
  /\ op = "StudentScheduleCrawler._parse_class_cell" =>
       /\ find_all_span(arg) = <<>> => ret = <<>>
       /\ Len(ret) <= Len(SessionRuns(arg))
       /\ (\A i \in 1..Len(RunsOf(arg)) :
             Len(RunsOf(arg)[i]) < 6 \/ ~Readable(RunsOf(arg)[i], 6))
            => ret = <<>>
  /\ (op = "ScheduleCrawler.parse_schedule" /\ arg.table
        /\ \A i \in 2..Len(arg.rows) : Len(arg.rows[i]) >= 3) =>
       /\ ret.ok
       /\ Len(ret.value) = Min(Len(SkipHeaderRow(arg.rows)), Len(days))
       /\ \A i \in 2..Min(Len(arg.rows), Len(days) + 1) :
            arg.rows[i][1] = UnreadableCell =>
              /\ ret.value[i - 1].morning = <<>>
              /\ Len(ret.value[i - 1].afternoon)
                   = (IF Len(find_all_span(arg.rows[i][2])) >= 7
                      THEN 1 ELSE 0)
  /\ (op = "StudentScheduleCrawler.parse_schedule" /\ arg.table) =>
       /\ ret.ok
       /\ Len(ret.value)
            = Cardinality({j \in 2..Min(Len(arg.rows), Len(days) + 1) :
                             Len(arg.rows[j]) >= SlotCount})
       /\ \A i \in 1..Len(ret.value) :
            \E j \in 2..Min(Len(arg.rows), Len(days) + 1) :
              /\ Len(arg.rows[j]) >= SlotCount
              /\ ret.value[i].day = days[j - 1]
              /\ Len(ret.value[i].morning)
                   = Len(SessionRuns(arg.rows[j][1]))
              /\ Len(ret.value[i].afternoon)
                   = Len(SessionRuns(arg.rows[j][2]))
              /\ Len(ret.value[i].evening)
                   = Len(SessionRuns(arg.rows[j][3]))

C8_Witness ==
  /\ op = "StudentScheduleCrawler._parse_class_cell"
  /\ \E i \in 1..Len(arg) : arg[i].raises
  /\ Len(SessionRuns(arg)) < Len(SelectSeq(RunsOf(arg),
                                           LAMBDA r : Len(r) >= 6))
  /\ Len(ret) >= 1

\* the header run of week and dates holds fewer than two dates
FewerThanTwoDates(header) ==
  /\ header.div
  /\ Len(header.spans) >= 1
  /\ Len(FindDates(header.spans[1])) < 2

\* C9: in both modes, when the week/date run of the header holds fewer than
\* two DD/MM/YYYY matches the Header Parser returns the unknown sentinels
\* (week_number 0, dates and owner "Unknown") and raises nothing; it never
\* returns a guessed or empty date.
C9_HeaderDegrade ==
  /\ (op = "ScheduleCrawler._extract_week_info" /\ FewerThanTwoDates(arg))
       => ret = UnknownWeekInfo
  /\ (op = "StudentScheduleCrawler._extract_metadata"
        /\ FewerThanTwoDates(arg))
       => /\ ret.ok
          /\ ret.value.week_number = 0
          /\ ret.value.start_date = Unknown
          /\ ret.value.end_date = Unknown
          /\ ret.value.class_name = Unknown

\* header parsing fails: no header block, fewer than two spans, no digit
\* before the colon, or fewer than two dates
HeaderFails(header) ==
  \/ ~header.div
  \/ Len(header.spans) < 2
  \/ DigitsOf(Split(Strip(header.spans[1]), <<":">>)[1]) = <<>>
  \/ Len(FindDates(header.spans[1])) < 2

WellFormedRows(page) ==
  page.table /\ \A i \in 2..Len(page.rows) : Len(page.rows[i]) >= 3

\* C10: for every page with a schedule table, in both modes, a failure of
\* header parsing does not fail the fetch: the result carries the parsed
\* schedule and metadata whose fields are all the unknown sentinels.
C10_HeaderFailureKeepsSchedule ==
  /\ (op = "ScheduleCrawler.fetch_schedule" /\ WellFormedRows(arg)
        /\ HeaderFails(arg.header))
       => /\ ret.ok
          /\ ret.value.metadata = UnknownWeekInfo
          /\ Len(ret.value.schedule)
               = Min(Len(SkipHeaderRow(arg.rows)), Len(days))
  /\ (op = "StudentScheduleCrawler.fetch_schedule" /\ WellFormedRows(arg)
        /\ HeaderFails(arg.header))
       => /\ ret.ok
          /\ ret.value.metadata.week_number = 0
          /\ ret.value.metadata.start_date = Unknown
          /\ ret.value.metadata.end_date = Unknown
          /\ ret.value.metadata.class_name = Unknown
          /\ Len(ret.value.schedule)
               = Min(Len(SkipHeaderRow(arg.rows)), Len(days))

----------------------------------------------------------------------------
(* The header happy path *)

\* the positions at which the date pattern matches in s
DatePositions(s) ==
  {i \in 1..Len(s) : DateAtHead(SubSeq(s, i, Len(s)))}

\* the n-th date of s, reading from the left without overlap; s holds at
\* least n dates
RECURSIVE NthDatePosition(_, _, _)
NthDatePosition(s, n, from) ==
  LET later == {i \in DatePositions(s) : i >= from}
      first == CHOOSE i \in later : \A j \in later : i <= j
  IN IF n = 1 THEN first ELSE NthDatePosition(s, n - 1, first + DateMatchLen)

NthDate(s, n) ==
  SubSeq(s, NthDatePosition(s, n, 1),
         NthDatePosition(s, n, 1) + DateMatchLen - 1)

ColonPositions(s) == {i \in 1..Len(s) : s[i] = ":"}

FirstColon(s) ==
  CHOOSE i \in ColonPositions(s) : \A j \in ColonPositions(s) : i <= j

\* the digits of s are one unbroken run
OneDigitRun(s) ==
  LET at == {i \in 1..Len(s) : IsDigit(s[i])}
  IN at # {} /\ \A i, j \in at : \A k \in i..j : k \in at

\* the happy-path header: two spans or more, the first "<text with one run
\* of digits>: ..." with two dates or more after the colon
HappyHeader(header) ==
  /\ header.div
  /\ Len(header.spans) >= 2
  /\ ColonPositions(header.spans[1]) # {}
  /\ OneDigitRun(SubSeq(header.spans[1], 1,
                        FirstColon(header.spans[1]) - 1))
  /\ Cardinality({i \in DatePositions(header.spans[1]) :
                    i > FirstColon(header.spans[1])}) >= 2
  /\ \A i \in DatePositions(header.spans[1]) :
       \A j \in DatePositions(header.spans[1]) :
         i < j => j >= i + DateMatchLen

\* the number written before the first colon
WeekNumberOf(week_span) ==
  LET head == SubSeq(week_span, 1, FirstColon(week_span) - 1)
      at == {i \in 1..Len(head) : IsDigit(head[i])}
      lo == CHOOSE i \in at : \A j \in at : i <= j
  IN PyInt(SubSeq(head, lo, lo + Cardinality(at) - 1)).val

\* the owner span without its label prefix, trimmed
OwnerOf(owner_span, label) ==
  IF StartsWith(Strip(owner_span), label)
  THEN Strip(SubSeq(Strip(owner_span), Len(label) + 1,
                    Len(Strip(owner_span))))
  ELSE Strip(owner_span)

\* C11: for a header whose first span is "<text with digits>: ... D1 ... D2
\* ..." the week number is the integer written by the digits before the
\* first colon, start_date and end_date are the first and the second date
\* of the first span (later dates ignored), and the owner is the second span
\* with its label prefix removed and trimmed; in both modes.
C11_HeaderHappyPath ==
  /\ (op = "ScheduleCrawler._extract_week_info" /\ HappyHeader(arg))
       => /\ ret.week_number = WeekNumberOf(arg.spans[1])
          /\ ret.start_date = NthDate(arg.spans[1], 1)
          /\ ret.end_date = NthDate(arg.spans[1], 2)
          /\ ret.professor_name = OwnerOf(arg.spans[2], InstructorOwnerLabel)
  /\ (op = "StudentScheduleCrawler._extract_metadata" /\ HappyHeader(arg))
       => /\ ret.ok
          /\ ret.value.week_number = WeekNumberOf(arg.spans[1])
          /\ ret.value.start_date = NthDate(arg.spans[1], 1)
          /\ ret.value.end_date = NthDate(arg.spans[1], 2)
          /\ ret.value.class_name = OwnerOf(arg.spans[2], StudentOwnerLabel)

\* a header with week number 12 and three dates has been parsed, in student
\* mode, and the third date was ignored
C11_Witness ==
  /\ op = "StudentScheduleCrawler._extract_metadata"
  /\ HappyHeader(arg)
  /\ Len(FindDates(arg.spans[1])) = 3
  /\ ret.ok
  /\ ret.value.week_number = 12
  /\ ret.value.start_date = Date2
  /\ ret.value.end_date = Date1
  /\ ret.value.class_name = <<"K", "4", "8">>

----------------------------------------------------------------------------
(* The schedule table and its rows *)

ParseScheduleCalls ==
  {"ScheduleCrawler.parse_schedule", "StudentScheduleCrawler.parse_schedule"}

\* the errors that name the missing schedule table
StructuralErrors == {"Schedule table not found in HTML content"}

\* C12: in both modes parse_schedule on markup without a table fails with
\* an explicit structural error that names the missing schedule table, and
\* returns no schedule.
C12_MissingTableError ==
  (op \in ParseScheduleCalls /\ ~arg.table)
    => (~ret.ok /\ ret.exc \in StructuralErrors)

\* the fixed day labels, in order
DayLabels ==
  <<"Thu 2", "Thu 3", "Thu 4", "Thu 5", "Thu 6", "Thu 7", "Chu nhat">>

\* the rows after the first
DataRowsOf(page) == SubSeq(page.rows, 2, Len(page.rows))

\* the number of data rows that are paired with a label
PairedRows(page) == Min(Len(DataRowsOf(page)), Len(DayLabels))

\* the three slots of a row as the crawler in use parses them
ParsedRow(row) ==
  IF crawler = "instructor"
  THEN [morning |-> InstructorSlot(row[1]),
        afternoon |-> InstructorSlot(row[2]),
        evening |-> InstructorSlot(row[3])]
  ELSE [morning |-> StudentSlot(row[1], period_map),
        afternoon |-> StudentSlot(row[2], period_map),
        evening |-> StudentSlot(row[3], period_map)]

\* entry is the day entry of the i-th data row of page
EntryOfRow(entry, page, i) ==
  /\ entry.day = DayLabels[i]
  /\ entry.morning = ParsedRow(DataRowsOf(page)[i]).morning
  /\ entry.afternoon = ParsedRow(DataRowsOf(page)[i]).afternoon
  /\ entry.evening = ParsedRow(DataRowsOf(page)[i]).evening

FullRow(page, i) == Len(DataRowsOf(page)[i]) >= 3

LabelIndex(day) == CHOOSE i \in 1..Len(DayLabels) : DayLabels[i] = day

\* C13: the first table row is never parsed as a day; the i-th following
\* row (i = 1..7) gets the i-th day label; with k < 7 data rows only the
\* first k labels appear and no error is raised; rows beyond the seventh are
\* ignored, so a schedule has at most 7 days and no key outside the labels.
C13_RowPairing ==
  (op \in ParseScheduleCalls /\ arg.table) =>
    /\ ret.ok =>
         /\ Len(ret.value) <= Len(DayLabels)
         /\ \A e \in 1..Len(ret.value) :
              \E i \in 1..PairedRows(arg) :
                FullRow(arg, i) /\ EntryOfRow(ret.value[e], arg, i)
         /\ \A e, f \in 1..Len(ret.value) :
              e < f => LabelIndex(ret.value[e].day)
                         < LabelIndex(ret.value[f].day)
    /\ (\A i \in 1..PairedRows(arg) : FullRow(arg, i)) =>
         /\ ret.ok
         /\ Len(ret.value) = PairedRows(arg)
         /\ \A i \in 1..PairedRows(arg) :
              EntryOfRow(ret.value[i], arg, i)

\* a table with a header row and nine data rows has been parsed in
\* instructor mode: seven days, the last one made from the seventh data row
C13_Witness ==
  /\ op = "ScheduleCrawler.parse_schedule"
  /\ arg.table
  /\ Len(arg.rows) = 10
  /\ ret.ok
  /\ Len(ret.value) = 7
  /\ ret.value[1].day = "Thu 2"
  /\ ret.value[1].morning[1].period = <<"1">>
  /\ ret.value[7].day = "Chu nhat"
  /\ ret.value[7].morning[1].period = <<"7">>

\* C14: in either mode a data row with fewer than three cells never fails
\* the parse: that row contributes no day entry, every other row is parsed
\* and keeps the day label of its own position, and a schedule is returned.
C14_ShortRowsAbsorbed ==
  (op \in ParseScheduleCalls /\ arg.table
     /\ \E i \in 1..PairedRows(arg) : ~FullRow(arg, i)) =>
    /\ ret.ok
    /\ Len(ret.value)
         = Cardinality({i \in 1..PairedRows(arg) : FullRow(arg, i)})
    /\ \A i \in 1..PairedRows(arg) :
         IF FullRow(arg, i)
         THEN \E e \in 1..Len(ret.value) : EntryOfRow(ret.value[e], arg, i)
         ELSE \A e \in 1..Len(ret.value) : ret.value[e].day # DayLabels[i]

----------------------------------------------------------------------------
(* Generated documents *)

CreateIcsCalls ==
  {"ICSExporter.create_ics_content_from_data",
   "StudentICSExporter.create_ics_content_from_data"}

\* the days of month m of year y
MonthDays(y, m) ==
  CASE m \in {1, 3, 5, 7, 8, 10, 12} -> 31
    [] m \in {4, 6, 9, 11} -> 30
    [] OTHER -> IF (y % 4 = 0 /\ y % 100 # 0) \/ y % 400 = 0 THEN 29 ELSE 28

\* the text s writes a date of the calendar as day/month/year
DenotesDate(s) ==
  LET parts == Split(s, <<"/">>)
  IN /\ Len(parts) = 3
     /\ \A i \in 1..3 : AllDigits(parts[i])
     /\ Len(parts[1]) <= 2
     /\ Len(parts[2]) <= 2
     /\ Len(parts[3]) = 4
     /\ PyInt(parts[3]).val >= 1
     /\ PyInt(parts[2]).val \in 1..12
     /\ PyInt(parts[1]).val
          \in 1..MonthDays(PyInt(parts[3]).val, PyInt(parts[2]).val)

\* a model the generator must refuse
BadModel(schedule_data) ==
  \/ "metadata" \notin DOMAIN schedule_data
  \/ "schedule" \notin DOMAIN schedule_data
  \/ "start_date" \notin DOMAIN schedule_data.metadata
  \/ ~DenotesDate(schedule_data.metadata.start_date)

\* C15: when the model lacks the metadata or the schedule key, lacks
\* metadata.start_date, or has a start_date that is not a valid date
\* ("Unknown" and the empty string included), create_ics_content_from_data
\* raises an explicit error and returns no calendar text.
C15_GeneratorErrors ==
  (op \in CreateIcsCalls /\ BadModel(arg))
    => (~ret.ok /\ ret.exc = "Failed to create ICS content")

\* a week of sessions whose start_date is the header sentinel has been
\* refused
C15_Witness ==
  /\ op = "StudentICSExporter.create_ics_content_from_data"
  /\ "metadata" \in DOMAIN arg
  /\ "schedule" \in DOMAIN arg
  /\ "start_date" \in DOMAIN arg.metadata
  /\ arg.metadata.start_date = Unknown
  /\ Len(arg.schedule) = 7
  /\ ~ret.ok

\* the slots of a day, in the order the events are written
SlotOrder == <<"morning", "afternoon", "evening">>

\* the non-empty sessions of list, each with the label of its day
RECURSIVE SlotEvents(_, _)
SlotEvents(day, list) ==
  IF list = <<>> THEN <<>>
  ELSE (IF DOMAIN Head(list) = {} THEN <<>>
        ELSE <<[day |-> day, session |-> Head(list)]>>)
         \o SlotEvents(day, Tail(list))

DayEvents(entry) ==
  SlotEvents(entry.day, entry[SlotOrder[1]])
    \o SlotEvents(entry.day, entry[SlotOrder[2]])
    \o SlotEvents(entry.day, entry[SlotOrder[3]])

\* the events a model calls for, in the model's day order
RECURSIVE ExpectedEvents(_)
ExpectedEvents(schedule) ==
  IF schedule = <<>> THEN <<>>
  ELSE DayEvents(Head(schedule)) \o ExpectedEvents(Tail(schedule))

\* the positions of the token tok in text, and the n-th of them
Positions(text, tok) == {i \in 1..Len(text) : text[i] = tok}

NthPosition(text, tok, n) ==
  CHOOSE i \in Positions(text, tok) :
    Cardinality({j \in Positions(text, tok) : j < i}) = n - 1

\* the text between position i and the end of its line
RestOfLine(text, i) ==
  LET ends == {j \in (i + 1)..Len(text) : text[j] = "\r"}
      stop == IF ends = {} THEN Len(text) + 1
              ELSE CHOOSE j \in ends : \A k \in ends : j <= k
  IN SubSeq(text, i + 1, stop - 1)

\* the value of the n-th property named tok
NthValue(text, tok, n) == RestOfLine(text, NthPosition(text, tok, n))

\* C16: a generated document has exactly one VEVENT per non-empty session
\* of the model and none for an empty session object; the events are in the
\* model's day order and, within a day, morning, afternoon, evening, each
\* slot in its list order.
C16_EventCountAndOrder ==
  (op \in CreateIcsCalls /\ ret.ok) =>
    /\ Count(ret.value, "BEGIN:VEVENT") = Len(ExpectedEvents(arg.schedule))
    /\ Count(ret.value, "END:VEVENT") = Len(ExpectedEvents(arg.schedule))
    /\ Count(ret.value, "SUMMARY:") = Len(ExpectedEvents(arg.schedule))
    /\ \A n \in 1..Len(ExpectedEvents(arg.schedule)) :
         NthValue(ret.value, "SUMMARY:", n)
           = ExpectedEvents(arg.schedule)[n].session.subject

\* the model with five sessions and two empty session objects in two days
\* has been turned into a document of five events, in student mode
C16_Witness ==
  /\ op = "StudentICSExporter.create_ics_content_from_data"
  /\ ret.ok
  /\ Len(arg.schedule) = 2
  /\ Len(AllSessions(arg.schedule)) = 7
  /\ Count(ret.value, "BEGIN:VEVENT") = 5
  /\ NthValue(ret.value, "SUMMARY:", 2) = <<"S", "2">>
  /\ NthValue(ret.value, "SUMMARY:", 5) = <<"S", "5">>

\* the number of the day y-m-d, counting from 1 January of year 1
DaysBeforeYear(y) ==
  365 * (y - 1) + ((y - 1) \div 4) - ((y - 1) \div 100) + ((y - 1) \div 400)

RECURSIVE DaysBeforeMonth(_, _)
DaysBeforeMonth(y, m) ==
  IF m = 1 THEN 0 ELSE DaysBeforeMonth(y, m - 1) + MonthDays(y, m - 1)

Ordinal(y, m, d) == DaysBeforeYear(y) + DaysBeforeMonth(y, m) + d

\* the day number of the date a start_date text writes
OrdinalOf(s) ==
  Ordinal(PyInt(Split(s, <<"/">>)[3]).val, PyInt(Split(s, <<"/">>)[2]).val,
          PyInt(Split(s, <<"/">>)[1]).val)

\* the text stamp is YYYYMMDD of the day with number n
StampsDay(stamp, n) ==
  /\ Len(stamp) = 8
  /\ AllDigits(stamp)
  /\ PyInt(SubSeq(stamp, 5, 6)).val \in 1..12
  /\ PyInt(SubSeq(stamp, 7, 8)).val
       \in 1..MonthDays(PyInt(SubSeq(stamp, 1, 4)).val,
                        PyInt(SubSeq(stamp, 5, 6)).val)
  /\ Ordinal(PyInt(SubSeq(stamp, 1, 4)).val, PyInt(SubSeq(stamp, 5, 6)).val,
             PyInt(SubSeq(stamp, 7, 8)).val) = n

\* the offset of a day label: Thu 2 = 0 ... Chu nhat = 6
OffsetOf(day) == LabelIndex(day) - 1

\* the date part of the n-th property named tok: the eight characters after
\* the timezone and the colon
DatePart(text, tok, n) ==
  SubSeq(NthValue(text, tok, n), 3, 10)

\* C17: for every valid start_date and every day label, the date part of
\* DTSTART and DTEND of every event of that day is the calendar date
\* start_date + offset(label) days, Thu 2 = 0 ... Chu nhat = 6, also across
\* month and year ends.
C17_DayOffset ==
  (op \in CreateIcsCalls /\ ret.ok) =>
    \A n \in 1..Len(ExpectedEvents(arg.schedule)) :
      /\ StampsDay(DatePart(ret.value, "DTSTART;TZID=", n),
                   OrdinalOf(arg.metadata.start_date)
                     + OffsetOf(ExpectedEvents(arg.schedule)[n].day))
      /\ DatePart(ret.value, "DTEND;TZID=", n)
           = DatePart(ret.value, "DTSTART;TZID=", n)
      /\ (arg.metadata.start_date = Date1
            /\ ExpectedEvents(arg.schedule)[n].day = "Thu 4")
           => DatePart(ret.value, "DTSTART;TZID=", n)
                = <<"2", "0", "2", "4", "0", "2", "0", "7">>

\* a week starting on 29/12/2025 has been generated: its first event is on
\* 29 December 2025 and its last, on Chu nhat, on 4 January 2026
C17_Witness ==
  /\ op = "StudentICSExporter.create_ics_content_from_data"
  /\ ret.ok
  /\ arg.metadata.start_date = YearEnd
  /\ Len(arg.schedule) = 7
  /\ arg.schedule[7].day = "Chu nhat"
  /\ DatePart(ret.value, "DTSTART;TZID=", 1)
       = <<"2", "0", "2", "5", "1", "2", "2", "9">>
  /\ DatePart(ret.value, "DTSTART;TZID=", 7)
       = <<"2", "0", "2", "6", "0", "1", "0", "4">>

\* label is a key of both day maps, with offset n
AgreedOffset(label, n) ==
  /\ label \in DOMAIN ICSExporter_day_map
  /\ ICSExporter_day_map[label] = n
  /\ label \in DOMAIN StudentICSExporter_day_map
  /\ StudentICSExporter_day_map[label] = n

\* C18: every day key either Schedule Parser can put in a schedule is a key
\* of the day_map of both Calendar Generators, with the offset that is its
\* index (0..6) in the parser's day list; so a model made by a parser never
\* meets an unknown day label in a generator.
C18_DayLabelAgreement ==
  /\ \A i \in 1..Len(days) : AgreedOffset(days[i], i - 1)
  /\ \A i \in 1..Len(student_days) : AgreedOffset(student_days[i], i - 1)
  /\ (op = "ScheduleCrawler.parse_schedule" /\ ret.ok) =>
       \A e \in 1..Len(ret.value) :
         \E i \in 1..Len(days) :
           ret.value[e].day = days[i] /\ AgreedOffset(ret.value[e].day, i - 1)
  /\ (op = "StudentScheduleCrawler.parse_schedule" /\ ret.ok) =>
       \A e \in 1..Len(ret.value) :
         \E i \in 1..Len(student_days) :
           /\ ret.value[e].day = student_days[i]
           /\ AgreedOffset(ret.value[e].day, i - 1)
  /\ (op = "ScheduleCrawler.fetch_schedule" /\ ret.ok) =>
       \A e \in 1..Len(ret.value.schedule) :
         ret.value.schedule[e].day \in DOMAIN ICSExporter_day_map
  /\ (op = "StudentScheduleCrawler.fetch_schedule" /\ ret.ok) =>
       \A e \in 1..Len(ret.value.schedule) :
         ret.value.schedule[e].day \in DOMAIN StudentICSExporter_day_map
  /\ (op \in CreateIcsCalls /\ ~BadModel(arg)
        /\ (\A e \in 1..Len(arg.schedule) :
              \E i \in 1..Len(days) : arg.schedule[e].day = days[i])
        /\ (\A n \in 1..Len(ExpectedEvents(arg.schedule)) :
              HasKeys(ExpectedEvents(arg.schedule)[n].session,
                      IF op = "ICSExporter.create_ics_content_from_data"
                      THEN InstructorEventKeys ELSE StudentEventKeys))) =>
       ret.ok

\* a table of seven days has been parsed in student mode and every one of
\* the seven labels is in the schedule
C18_Witness ==
  /\ op = "StudentScheduleCrawler.parse_schedule"
  /\ ret.ok
  /\ Len(ret.value) = 7
  /\ \A i \in 1..7 : ret.value[i].day = student_days[i]
  /\ \A i \in 1..7 : ret.value[i].day \in DOMAIN StudentICSExporter_day_map

\* the opening block of a document: six lines, each ended by CRLF or, the
\* last one of a document without events, followed by the closing line
OpeningLines(prodid) ==
  <<"BEGIN:VCALENDAR", "\r", "\n", prodid, "\r", "\n",
    "VERSION:2.0", "\r", "\n", "CALSCALE:GREGORIAN", "\r", "\n",
    "METHOD:PUBLISH", "\r", "\n", "X-WR-TIMEZONE:", "Asia/Ho_Chi_Minh",
    "\r", "\n">>

ProductIds ==
  {"PRODID:-//DalatCoder//Schedule Exporter//EN",
   "PRODID:-//DalatCoder//Student Schedule Exporter//EN"}

\* every line feed of text follows a carriage return and every carriage
\* return is followed by a line feed
OnlyCRLF(text) ==
  \A i \in 1..Len(text) :
    /\ text[i] = "\n" => (i > 1 /\ text[i - 1] = "\r")
    /\ text[i] = "\r" => (i < Len(text) /\ text[i + 1] = "\n")

\* every BEGIN:VEVENT has its END:VEVENT before the next BEGIN:VEVENT
EventsFramed(text) ==
  /\ Count(text, "BEGIN:VEVENT") = Count(text, "END:VEVENT")
  /\ \A n \in 1..Count(text, "BEGIN:VEVENT") :
       /\ NthPosition(text, "BEGIN:VEVENT", n)
            < NthPosition(text, "END:VEVENT", n)
       /\ n < Count(text, "BEGIN:VEVENT")
            => NthPosition(text, "END:VEVENT", n)
                 < NthPosition(text, "BEGIN:VEVENT", n + 1)

\* C19: every generated document starts with the lines BEGIN:VCALENDAR,
\* PRODID, VERSION:2.0, CALSCALE:GREGORIAN, METHOD:PUBLISH and the timezone
\* line, ends with END:VCALENDAR, has every BEGIN:VEVENT followed by its own
\* END:VEVENT before the next BEGIN:VEVENT, and separates its lines by CRLF
\* with no bare LF anywhere, for every model the generator accepts.
C19_DocumentFraming ==
  (op \in CreateIcsCalls /\ ret.ok) =>
    /\ \E prodid \in ProductIds : StartsWith(ret.value, OpeningLines(prodid))
    /\ ret.value[Len(ret.value)] = "END:VCALENDAR"
    /\ Count(ret.value, "BEGIN:VCALENDAR") = 1
    /\ Count(ret.value, "END:VCALENDAR") = 1
    /\ EventsFramed(ret.value)
    /\ OnlyCRLF(ret.value)

\* the fields of the n-th event of a model that go into its description
DescriptionOf(session) ==
  <<"Ma lop: ">> \o session.class_code \o <<"\\", "n">>
    \o <<"Lop: ">> \o session.class_name \o <<"\\", "n">>
    \o <<"Tiet: ">> \o session.period \o <<"\\", "n">>
    \o (IF op = "ICSExporter.create_ics_content_from_data"
        THEN <<"Da day: ">> \o session.taught_lessons
        ELSE <<"Giang vien: ">> \o session.teacher_name)

\* the line breaks between the n-th BEGIN:VEVENT and its END:VEVENT
BreaksInEvent(text, n) ==
  Cardinality({i \in NthPosition(text, "BEGIN:VEVENT", n)
                       ..NthPosition(text, "END:VEVENT", n) :
                 text[i] = "\n"})

\* C20: the DESCRIPTION value of every event is the four labelled fields
\* (class code, class name, period label, and taught lessons or teacher
\* name) joined by backslash + n, and holds no raw newline, so that each
\* event occupies exactly 11 lines; for every content of the session fields.
C20_DescriptionEscaping ==
  (op \in CreateIcsCalls /\ ret.ok) =>
    \A n \in 1..Len(ExpectedEvents(arg.schedule)) :
      /\ NthValue(ret.value, "DESCRIPTION:", n)
           = DescriptionOf(ExpectedEvents(arg.schedule)[n].session)
      /\ "\n" \notin {NthValue(ret.value, "DESCRIPTION:", n)[i] :
                        i \in 1..Len(NthValue(ret.value, "DESCRIPTION:", n))}
      /\ BreaksInEvent(ret.value, n) = EventLineCount - 1

----------------------------------------------------------------------------
(* Properties of repeated generation *)

\* the document the generator of the call op makes of schedule_data in the
\* environment env
GeneratedBy(name, schedule_data, env) ==
  IF name = "ICSExporter.create_ics_content_from_data"
  THEN ICSExporter_create_ics_content_from_data(schedule_data, env)
  ELSE StudentICSExporter_create_ics_content_from_data(schedule_data, env)

\* C21: generating the calendar document twice from the same model, with
\* the identifiers of the two generations held to one injected sequence,
\* yields the same text byte for byte, whatever the wall-clock instants of
\* the two calls.
C21_Idempotence ==
  (op \in CreateIcsCalls /\ ret.ok) =>
    \A first \in Envs :
      ret = GeneratedBy(op, arg, first) =>
        \A second \in Envs :
          second.seed = first.seed => GeneratedBy(op, arg, second) = ret

----------------------------------------------------------------------------
(* Properties of the nested mapping *)

FetchCalls ==
  {"ScheduleCrawler.fetch_schedule", "StudentScheduleCrawler.fetch_schedule"}

\* the fields of a ClassSession and of a StudentSession
ClassSessionFields ==
  {"subject", "class_code", "class_name", "period", "period_begin",
   "period_end", "taught_lessons", "room", "content"}

StudentSessionFields ==
  {"subject", "class_code", "class_name", "period", "period_begin",
   "period_end", "time_begin", "time_end", "room", "teacher_name"}

SessionFields ==
  IF crawler = "instructor" THEN ClassSessionFields
  ELSE StudentSessionFields

\* the session objects the parser in use makes of a cell, before they are
\* converted
ParsedSessions(cell) ==
  IF crawler = "instructor"
  THEN (IF ScheduleCrawler_parse_class_cell(cell).isNone THEN <<>>
        ELSE <<ScheduleCrawler_parse_class_cell(cell).value>>)
  ELSE StudentScheduleCrawler_parse_class_cell(cell, period_map)

\* reading mapping back key by key gives the fields of session, all of
\* them and no other
ReadsBack(mapping, session) ==
  /\ DOMAIN mapping = SessionFields
  /\ \A f \in SessionFields : mapping[f] = session[f]

\* list is the conversion of the sessions of cell, in their order
SlotReadsBack(list, cell) ==
  /\ Len(list) = Len(ParsedSessions(cell))
  /\ \A k \in 1..Len(list) : ReadsBack(list[k], ParsedSessions(cell)[k])

\* C22: for every parsed schedule, converting it to the nested mapping
\* {metadata, schedule: {day: {morning, afternoon, evening}}} and reading
\* the sessions back field by field gives, for every session, the same
\* value of every defined field, the same slot and day, and the same order;
\* no field is dropped or renamed.
C22_RoundTrip ==
  (op \in FetchCalls /\ ret.ok) =>
    /\ DOMAIN ret.value = {"metadata", "schedule"}
    /\ Len(ret.value.schedule)
         = Cardinality({i \in 1..PairedRows(arg) : FullRow(arg, i)})
    /\ \A e \in 1..Len(ret.value.schedule) :
         /\ DOMAIN ret.value.schedule[e]
              = {"day", "morning", "afternoon", "evening"}
         /\ \E i \in 1..PairedRows(arg) :
              /\ FullRow(arg, i)
              /\ ret.value.schedule[e].day = DayLabels[i]
              /\ \A s \in 1..Len(SlotOrder) :
                   SlotReadsBack(ret.value.schedule[e][SlotOrder[s]],
                                 DataRowsOf(arg)[i][s])
    /\ \A e, f \in 1..Len(ret.value.schedule) :
         e < f => LabelIndex(ret.value.schedule[e].day)
                    < LabelIndex(ret.value.schedule[f].day)

\* a student page has been fetched whose first day has two sessions in one
\* slot, and both are in the mapping with all ten fields
C22_Witness ==
  /\ op = "StudentScheduleCrawler.fetch_schedule"
  /\ ret.ok
  /\ \E e \in 1..Len(ret.value.schedule) :
       \E s \in 1..Len(SlotOrder) :
         /\ Len(ret.value.schedule[e][SlotOrder[s]]) = 2
         /\ DOMAIN ret.value.schedule[e][SlotOrder[s]][1]
              = StudentSessionFields
         /\ ret.value.schedule[e][SlotOrder[s]][1].subject
              # ret.value.schedule[e][SlotOrder[s]][2].subject

----------------------------------------------------------------------------
(* Properties of the student session times *)

PeriodIndexes == 1..14

\* C23: for every student session, time_begin is the Period Table start of
\* period_begin when period_begin is in 1..14 and "00:00" otherwise, and
\* time_end is the Period Table end of period_end when period_end is in
\* 1..14 and "00:00" otherwise; an out-of-range or unresolved (0) period
\* index never makes session creation fail.
C23_TimeResolution ==
  op = "StudentScheduleCrawler._parse_class_cell" =>
    /\ Len(ret) = Len(SessionRuns(arg))
    /\ \A i \in 1..Len(ret) :
         /\ ret[i].time_begin
              = (IF ret[i].period_begin \in PeriodIndexes
                 THEN period_map[ret[i].period_begin][1]
                 ELSE <<"0", "0", ":", "0", "0">>)
         /\ ret[i].time_end
              = (IF ret[i].period_end \in PeriodIndexes
                 THEN period_map[ret[i].period_end][2]
                 ELSE <<"0", "0", ":", "0", "0">>)

\* a cell labelled 1-15 has given a session from 07:30 to the sentinel
C23_Witness ==
  /\ op = "StudentScheduleCrawler._parse_class_cell"
  /\ Len(ret) = 1
  /\ ret[1].period_begin = 1
  /\ ret[1].period_end = 15
  /\ ret[1].time_begin = <<"0", "7", ":", "3", "0">>
  /\ ret[1].time_end = <<"0", "0", ":", "0", "0">>

----------------------------------------------------------------------------
(* Properties of the event timestamps *)

\* the text of a time without its colons
WithoutColon(time) == SelectSeq(time, LAMBDA c : c # ":")

\* value is the zone parameter, a colon, the eight digits of the day with
\* number n, T, the time without its colon and 00
TimestampOf(value, n, time) ==
  /\ Len(value) = 11 + Len(WithoutColon(time)) + 2
  /\ SubSeq(value, 1, 2) = <<"Asia/Ho_Chi_Minh", ":">>
  /\ StampsDay(SubSeq(value, 3, 10), n)
  /\ value[11] = "T"
  /\ SubSeq(value, 12, Len(value)) = WithoutColon(time) \o <<"0", "0">>

\* C26: for every emitted event, DTSTART and DTEND carry the parameter
\* TZID=Asia/Ho_Chi_Minh and a value YYYYMMDDTHHMM00 built from the date of
\* the event's day (DD/MM/YYYY reordered) and the session's time_begin /
\* time_end (HH:MM with the colon removed), in that order.
C26_TimestampForm ==
  (op \in CreateIcsCalls /\ ret.ok) =>
    /\ Count(ret.value, "DTSTART;TZID=") = Len(ExpectedEvents(arg.schedule))
    /\ Count(ret.value, "DTEND;TZID=") = Len(ExpectedEvents(arg.schedule))
    /\ \A n \in 1..Len(ExpectedEvents(arg.schedule)) :
         /\ TimestampOf(NthValue(ret.value, "DTSTART;TZID=", n),
                        OrdinalOf(arg.metadata.start_date)
                          + OffsetOf(ExpectedEvents(arg.schedule)[n].day),
                        ExpectedEvents(arg.schedule)[n].session.time_begin)
         /\ TimestampOf(NthValue(ret.value, "DTEND;TZID=", n),
                        OrdinalOf(arg.metadata.start_date)
                          + OffsetOf(ExpectedEvents(arg.schedule)[n].day),
                        ExpectedEvents(arg.schedule)[n].session.time_end)
         /\ NthPosition(ret.value, "DTSTART;TZID=", n)
              < NthPosition(ret.value, "DTEND;TZID=", n)

\* the week of 05/02/2024 has been generated in instructor mode: the first
\* event runs from 20240205T073000 to 20240205T090500
C26_Witness ==
  /\ op = "ICSExporter.create_ics_content_from_data"
  /\ ret.ok
  /\ arg.metadata.start_date = Date1
  /\ Len(ExpectedEvents(arg.schedule)) >= 1
  /\ NthValue(ret.value, "DTSTART;TZID=", 1)
       = <<"Asia/Ho_Chi_Minh", ":", "2", "0", "2", "4", "0", "2", "0", "5",
           "T", "0", "7", "3", "0", "0", "0">>
  /\ NthValue(ret.value, "DTEND;TZID=", 1)
       = <<"Asia/Ho_Chi_Minh", ":", "2", "0", "2", "4", "0", "2", "0", "5",
           "T", "0", "9", "0", "5", "0", "0">>

----------------------------------------------------------------------------
(* Properties of the student events *)

\* the hour and minute digits of a timestamp value, as a number
ClockOf(value) == PyInt(SubSeq(value, 12, 15)).val

\* C27: for every model the student Schedule Parser can produce, every
\* event the student Calendar Generator emits has DTSTART strictly before
\* DTEND on the same date; in particular, for every student session with
\* 1 <= period_begin <= period_end <= 14 (also when the two periods lie in
\* different blocks) time_begin is strictly earlier than time_end.
C27_StartBeforeEnd ==
  /\ (op = "StudentICSExporter.create_ics_content_from_data" /\ ret.ok) =>
       \A n \in 1..Count(ret.value, "DTSTART;TZID=") :
         /\ DatePart(ret.value, "DTSTART;TZID=", n)
              = DatePart(ret.value, "DTEND;TZID=", n)
         /\ ClockOf(NthValue(ret.value, "DTSTART;TZID=", n))
              < ClockOf(NthValue(ret.value, "DTEND;TZID=", n))
  /\ op = "StudentScheduleCrawler._parse_class_cell" =>
       \A i \in 1..Len(ret) :
         (/\ 1 <= ret[i].period_begin
          /\ ret[i].period_begin <= ret[i].period_end
          /\ ret[i].period_end <= 14)
           => Minutes(ret[i].time_begin) < Minutes(ret[i].time_end)

----------------------------------------------------------------------------
(* Properties of the Period Table as state *)

\* this step constructs a Period Table
ConstructsTable ==
  /\ op # "StudentScheduleCrawler.__init__"
  /\ op' = "StudentScheduleCrawler.__init__"

\* C25: the Period Table is constructed exactly once per process, before
\* any session is parsed, and is never changed afterwards: after any
\* sequence of crawler constructions, cell parses, schedule parses and
\* fetches, every lookup sees the same 14 entries as right after
\* construction.
C25_TableBuiltOnce ==
  [][/\ ConstructsTable => crawler # "student"
     /\ (crawler = "student" /\ crawler' = "student") =>
          /\ period_map' = period_map
          /\ DOMAIN period_map = 1..14]_vars

----------------------------------------------------------------------------
(* Properties of the application window *)

\* C28: in every state reachable by any sequence of fetch clicks, worker
\* finished / error signals, file selections and export clicks, the
\* instructor tab's "Export to ICS" button (export_ics_button) is enabled
\* only while current_schedule holds a fetched schedule (is not None).
C28_ExportNeedsSchedule ==
  window.export_ics_button => ~window.current_schedule.isNone

\* export_current_to_ics has disabled the button and run the generation
ExportStarted ==
  /\ op = "MainWindow.export_current_to_ics"
  /\ ret \in {"ICSWorker.finished", "ICSWorker.error"}

\* C29: every export started from the instructor tab by
\* export_current_to_ics, which disables export_ics_button, eventually
\* re-enables that button whether the generation ends with the finished
\* signal or with the error signal, without needing a new fetch.
C29_ExportReenablesButton == [](ExportStarted => <>window.export_ics_button)

\* the CrawlerWorker threads that run or whose signal waits in the queue
CrawlerInFlight ==
  threads.crawler_worker
    + Cardinality({i \in 1..Len(events) :
                     events[i].signal
                       \in {"CrawlerWorker.finished", "CrawlerWorker.error"}})

----------------------------------------------------------------------------
(* Properties of interleaved parse invocations *)

\* what parse_schedule returns for the markup when it runs alone
ParsedAlone(style, page) ==
  IF style = "student"
  THEN StudentScheduleCrawler_parse_schedule(page, initialize_period_map)
  ELSE ScheduleCrawler_parse_schedule(page)

\* the invocations that have returned
Returned == {t \in Invocations : invocations[t].pc = "done"}

\* C24: when two or more parse invocations (instructor and student, or
\* different markup) run interleaved in any order, each on its own crawler
\* and markup, every invocation returns exactly the model it returns when
\* run alone, and no step of one invocation writes state of another.
C24_Isolation ==
  /\ [](\A t \in Returned :
          invocations[t].ret
            = ParsedAlone(invocations[t].style, invocations[t].page))
  /\ [][\A t, u \in Invocations :
          (invocations'[t] # invocations[t] /\ u # t)
            => invocations'[u] = invocations[u]]_vars

\* the second invocation has returned the week of a page with sessions
\* while the first, of the other kind and on other markup, was in its loop
\* with a day already parsed
C24_Witness ==
  /\ invocations[2].pc = "done"
  /\ invocations[2].ret.ok
  /\ Len(invocations[2].ret.value) = 2
  /\ invocations[1].pc = "rows"
  /\ invocations[1].style # invocations[2].style
  /\ invocations[1].page # invocations[2].page
  /\ invocations[1].schedule # <<>>

====
